---------------------------- MODULE Spec2Model ----------------------------
(***************************************************************************)
(* FroniusPusher: the Site collector (lib/site.ts), the Inverter           *)
(* (lib/inverter.ts) and the energy integrators (lib/energy-integrator.ts) *)
(* as a state machine.                                                     *)
(*                                                                         *)
(* Optional values (T | undefined | null) are sequences of length <= 1:    *)
(* <<>> is undefined/null and <<v>> is the value v.                        *)
(*                                                                         *)
(* Energy accumulators are exact: totalIntegrated holds the integrator's   *)
(* watt-hours multiplied by WhScale, so the trapezoid                      *)
(*   (powerW + lastPower)/2 * (dtMs / 3600000)                             *)
(* is the integer (powerW + lastPower) * dtMs.                             *)
(***************************************************************************)
EXTENDS Integers, Sequences, FiniteSets, TLC

\* ------------------------------------------------------------ bounds

\* Latest timestamp, in polling intervals, of the integrator harness.
MaxTime == 6
\* Number of updatePower calls of the integrator harness.
MaxCalls == 3
\* Number of 2-second timer ticks after the initial poll.
MaxPolls == 2
\* Number of scanForDevices() calls, the initial one included.
MaxScans == 2
\* Number of minutely reports generated.
MaxReports == 2
\* Number of polling rounds of the settled site.
MaxRounds == 3
\* Number of minutely records handed to the push client.
MaxMinutes == 2
\* Number of events published to the subscribers.
MaxEvents == 1
\* Number of 30-second heartbeat timer firings.
MaxBeats == 1
\* Number of times the transport reads from a connection's stream.
MaxReads == 1
\* Number of polling ticks of the site that only polls (one more than the
\* snapshots of ten minutes).
MaxHistoryPolls == 301
\* Number of polling rounds of the settled site that is rescanned.
MaxRescanRounds == 4
\* Number of firings of the minutely timer that are timed.
MaxRuns == 3
\* The longest a timer callback runs late, in ms.
MaxLateMs == 1

\* ------------------------------------------------- program constants

\* (1000 * 60 * 60) ms per hour, times the 2 of the trapezoid's average.
WhScale == 7200000
\* Polling interval in ms: getSite() calls startPolling(2000).
PollIntervalMs == 2000
\* A sample power in watts: the power that makes 1 Wh in one polling interval.
PowerW == 3600000 \div PollIntervalMs
\* axios timeout of the power-flow request, ms.
FetchTimeoutMs == 5000
\* siteMetricsHistory keeps the last 10 * 60 * 1000 ms.
HistoryWindowMs == 600000
\* froniusMinutelyHistory keeps the last 20 reports.
MinutelyHistoryLimit == 20
\* The minutely timer's period (ms).
MinuteMs == 60000
\* The number of samples kept: ten minutes at the 2-second polling interval.
SiteMetricsHistoryLimit == 300
\* The offset past the minute at which minutely reports are due.
MinutelyOffsetMs == 5000

\* ------------------------------------------------- optional values

Undefined == <<>>

Some(v) == <<v>>

IsDefined(x) == x # <<>>

Val(x) == x[1]

Abs(x) == IF x < 0 THEN -x ELSE x

Max(a, b) == IF a >= b THEN a ELSE b

\* ------------------------------------------------- EnergyIntegrator

\* new EnergyIntegrator(): totalIntegrated = 0, no last sample.
NewEnergyIntegrator == [totalIntegrated |-> 0, lastPower |-> Undefined, lastUpdateTime |-> Undefined]

\* Mutant: a null sample is recorded as a zero-power sample.
EI_updatePower_NullAsZero(self, powerW, timestamp) ==
    LET p == IF IsDefined(powerW) THEN Val(powerW) ELSE 0
        integrated ==
            IF IsDefined(self.lastUpdateTime) /\ IsDefined(self.lastPower)
            THEN self.totalIntegrated + (p + Val(self.lastPower)) * (timestamp - Val(self.lastUpdateTime))
            ELSE self.totalIntegrated
    IN [totalIntegrated |-> integrated, lastPower |-> Some(p), lastUpdateTime |-> Some(timestamp)]

\* EnergyIntegrator.updatePower(powerW, timestamp).
EI_updatePower(self, powerW, timestamp) ==
    IF ~IsDefined(powerW) THEN self
    ELSE
        LET integrated ==
                IF IsDefined(self.lastUpdateTime) /\ IsDefined(self.lastPower)
                THEN self.totalIntegrated
                     + (Val(powerW) + Val(self.lastPower)) * (timestamp - Val(self.lastUpdateTime))
                ELSE self.totalIntegrated
        IN [totalIntegrated |-> integrated,
            lastPower |-> powerW,
            lastUpdateTime |-> Some(timestamp)]

\* new BidirectionalEnergyIntegrator().
NewBidirectionalEnergyIntegrator == [positiveIntegrator |-> NewEnergyIntegrator, negativeIntegrator |-> NewEnergyIntegrator]

\* BidirectionalEnergyIntegrator.updatePower(powerW, timestamp).
BI_updatePower(self, powerW, timestamp) ==
    IF ~IsDefined(powerW) THEN self
    ELSE IF Val(powerW) > 0 THEN
        [positiveIntegrator |-> EI_updatePower(self.positiveIntegrator, powerW, timestamp),
         negativeIntegrator |-> EI_updatePower(self.negativeIntegrator, Some(0), timestamp)]
    ELSE IF Val(powerW) < 0 THEN
        [negativeIntegrator |-> EI_updatePower(self.negativeIntegrator, Some(Abs(Val(powerW))), timestamp),
         positiveIntegrator |-> EI_updatePower(self.positiveIntegrator, Some(0), timestamp)]
    ELSE
        [positiveIntegrator |-> EI_updatePower(self.positiveIntegrator, Some(0), timestamp),
         negativeIntegrator |-> EI_updatePower(self.negativeIntegrator, Some(0), timestamp)]


\* ------------------------------------------------------- arithmetic

RECURSIVE SeqSum(_)
\* Array.prototype.reduce((a, b) => a + b, 0) / the += loops over inverters.
SeqSum(s) == IF s = <<>> THEN 0 ELSE Head(s) + SeqSum(Tail(s))

\* Math.round(x) of the exact quotient x = num / den (den > 0): round half up.
RoundDiv(num, den) == (2 * num + den) \div (2 * den)

\* Mutant: the value is rounded down (Math.floor) instead of to the nearest.
RoundWh_Floor(scaled) == scaled \div WhScale

\* Math.round(wh) of a scaled watt-hour value, in whole Wh.
RoundWh(scaled) == RoundDiv(scaled, WhScale)

\* ---------------------------------------------------------- Inverter

\* Mutant: every inverter gets a grid integrator, whatever its role.
NewInverter_GridForAll(serialNumber, isMaster, battery, id) ==
    [serialNumber |-> serialNumber,
     id |-> id,
     isMaster |-> isMaster,
     battery |-> battery,
     solarIntegrator |-> NewEnergyIntegrator,
     batteryIntegrator |-> IF battery THEN Some(NewBidirectionalEnergyIntegrator) ELSE Undefined,
     gridIntegrator |-> Some(NewBidirectionalEnergyIntegrator),
     lastPowerData |-> Undefined,
     faultCode |-> Undefined]

\* new Inverter(ip, serialNumber, isMaster, info, hostname, battery, meter);
\* id is the identity of the object (a rescan constructs fresh objects).
NewInverter(serialNumber, isMaster, battery, id) ==
    [serialNumber |-> serialNumber,
     id |-> id,
     isMaster |-> isMaster,
     battery |-> battery,
     solarIntegrator |-> NewEnergyIntegrator,
     batteryIntegrator |-> IF battery THEN Some(NewBidirectionalEnergyIntegrator) ELSE Undefined,
     gridIntegrator |-> IF isMaster THEN Some(NewBidirectionalEnergyIntegrator) ELSE Undefined,
     lastPowerData |-> Undefined,
     faultCode |-> Undefined]

\* Inverter.getEnergyData(), in Wh * WhScale (getTotalKwh() * 1000 is the
\* integrator's value in Wh again).
GetEnergyData(inv) ==
    [solarWh |-> inv.solarIntegrator.totalIntegrated,
     batteryInWh |-> IF IsDefined(inv.batteryIntegrator) THEN Val(inv.batteryIntegrator).negativeIntegrator.totalIntegrated ELSE 0,
     batteryOutWh |-> IF IsDefined(inv.batteryIntegrator) THEN Val(inv.batteryIntegrator).positiveIntegrator.totalIntegrated ELSE 0,
     gridInWh |-> IF IsDefined(inv.gridIntegrator) THEN Val(inv.gridIntegrator).positiveIntegrator.totalIntegrated ELSE 0,
     gridOutWh |-> IF IsDefined(inv.gridIntegrator) THEN Val(inv.gridIntegrator).negativeIntegrator.totalIntegrated ELSE 0]

\* What the device answers to GetPowerFlowRealtimeData.fcgi:
\*   kind "error": the request fails; `error` is the axios error code
\*                 (ECONNABORTED: timeout, ECONNREFUSED, EHOSTUNREACH) or
\*                 the HTTP status of an error response (HTTP_500);
\*   kind "nosite": a body without Body.Data.Site;
\*   kind "site": Body.Data.Site with P_PV, P_Akku, P_Grid (null = <<>>) and
\*                Inverters[0].DeviceStatus.StatusCode (absent = <<>>).
TransportError(code) == [kind |-> "error", error |-> Some(code), P_PV |-> Undefined, P_Akku |-> Undefined, P_Grid |-> Undefined, StatusCode |-> Undefined]

\* The request times out.
ErrorResponse == TransportError("ECONNABORTED")

NoSiteResponse == [kind |-> "nosite", error |-> Undefined, P_PV |-> Undefined, P_Akku |-> Undefined, P_Grid |-> Undefined, StatusCode |-> Undefined]

SiteResponse(pv, akku, grid, status) == [kind |-> "site", error |-> Undefined, P_PV |-> pv, P_Akku |-> akku, P_Grid |-> grid, StatusCode |-> status]

\* TRUE iff fetchPowerFlow returns a PowerData (not null) for this response.
FetchReturnsData(resp) == resp.kind = "site"

\* The Inverter after fetchPowerFlow() got `resp` at time `t` (new Date()).
\* Math.round of a power is the identity on the integer watts modelled here.
Inverter_fetchPowerFlow(inv, resp, t) ==
    IF resp.kind # "site" THEN inv
    ELSE
        LET powerData == [timestamp |-> t, solarW |-> resp.P_PV, batteryW |-> resp.P_Akku, gridW |-> resp.P_Grid]
            statusCode == resp.StatusCode
            fault == IsDefined(statusCode) /\ Val(statusCode) # 0 /\ Val(statusCode) # 7
        IN [inv EXCEPT
              !.lastPowerData = Some(powerData),
              !.solarIntegrator = EI_updatePower(@, powerData.solarW, t),
              !.batteryIntegrator = IF IsDefined(@) THEN Some(BI_updatePower(Val(@), powerData.batteryW, t)) ELSE @,
              !.gridIntegrator = IF IsDefined(@) THEN Some(BI_updatePower(Val(@), powerData.gridW, t)) ELSE @,
              !.faultCode = IF fault THEN statusCode ELSE Undefined]

\* -------------------------------------------------------------- Site

\* The serial numbers of a sequence of inverters (the keys of this.inverters).
Serials(invs) == {invs[i].serialNumber : i \in 1..Len(invs)}

\* formatLocalDateTime(new Date(t)) read back by new Date(...): whole seconds.
FormatLocalDateTime(t) == (t \div 1000) * 1000

\* The site block that pollAllInverters builds from this.inverters at time t.
\* Powers in W; energies rounded to whole Wh; <<>> is null.
BuildSiteMetrics(invs, t) ==
    LET idx == 1..Len(invs)
        withData == {i \in idx : IsDefined(invs[i].lastPowerData)}
        pd(i) == Val(invs[i].lastPowerData)
        ed(i) == GetEnergyData(invs[i])
        solarIdx == {i \in withData : IsDefined(pd(i).solarW)}
        batteryIdx == {i \in withData : IsDefined(pd(i).batteryW)}
        gridIdx == {i \in withData : invs[i].isMaster /\ IsDefined(pd(i).gridW)}
        hasSolarData == solarIdx # {}
        hasBatteryData == batteryIdx # {}
        hasGridData == gridIdx # {}
        lastGrid == CHOOSE i \in gridIdx : \A j \in gridIdx : j <= i
        siteSolarW == SeqSum([i \in idx |-> IF i \in solarIdx THEN Val(pd(i).solarW) ELSE 0])
        siteSolarWh == SeqSum([i \in idx |-> IF i \in solarIdx THEN ed(i).solarWh ELSE 0])
        siteBatteryW == SeqSum([i \in idx |-> IF i \in batteryIdx THEN Val(pd(i).batteryW) ELSE 0])
        siteBatteryInWh == SeqSum([i \in idx |-> IF i \in batteryIdx THEN ed(i).batteryInWh ELSE 0])
        siteBatteryOutWh == SeqSum([i \in idx |-> IF i \in batteryIdx THEN ed(i).batteryOutWh ELSE 0])
        siteGridW == IF hasGridData THEN Val(pd(lastGrid).gridW) ELSE 0
        siteGridInWh == IF hasGridData THEN ed(lastGrid).gridInWh ELSE 0
        siteGridOutWh == IF hasGridData THEN ed(lastGrid).gridOutWh ELSE 0
        hasAny == hasSolarData \/ hasGridData \/ hasBatteryData
        siteLoadW == Max(0, siteSolarW + siteGridW + siteBatteryW)
        siteLoadWh == Max(0, siteSolarWh + siteGridInWh + siteBatteryOutWh - siteGridOutWh - siteBatteryInWh)
        opt(has, v) == IF has THEN Some(v) ELSE Undefined
    IN [timestamp |-> FormatLocalDateTime(t),
        solarW |-> opt(hasSolarData, siteSolarW),
        solarWh |-> opt(hasSolarData, RoundWh(siteSolarWh)),
        batteryW |-> opt(hasBatteryData, siteBatteryW),
        batteryInWh |-> opt(hasBatteryData, RoundWh(siteBatteryInWh)),
        batteryOutWh |-> opt(hasBatteryData, RoundWh(siteBatteryOutWh)),
        gridW |-> opt(hasGridData, siteGridW),
        gridInWh |-> opt(hasGridData, RoundWh(siteGridInWh)),
        gridOutWh |-> opt(hasGridData, RoundWh(siteGridOutWh)),
        loadW |-> opt(hasAny, siteLoadW),
        loadWh |-> opt(hasAny, RoundWh(siteLoadWh))]

\* Site.getEnergyTotals(), in Wh * WhScale; <<>> is null.
GetEnergyTotals(invs) ==
    LET idx == 1..Len(invs)
        ed(i) == GetEnergyData(invs[i])
        solarIdx == {i \in idx : ed(i).solarWh > 0}
        batteryIdx == {i \in idx : ed(i).batteryInWh > 0 \/ ed(i).batteryOutWh > 0}
        gridIdx == {i \in idx : invs[i].isMaster /\ (ed(i).gridInWh > 0 \/ ed(i).gridOutWh > 0)}
        hasSolar == solarIdx # {}
        hasBattery == batteryIdx # {}
        hasGrid == gridIdx # {}
        solarWh == SeqSum([i \in idx |-> IF i \in solarIdx THEN ed(i).solarWh ELSE 0])
        batteryInWh == SeqSum([i \in idx |-> IF i \in batteryIdx THEN ed(i).batteryInWh ELSE 0])
        batteryOutWh == SeqSum([i \in idx |-> IF i \in batteryIdx THEN ed(i).batteryOutWh ELSE 0])
        gridInWh == SeqSum([i \in idx |-> IF i \in gridIdx THEN ed(i).gridInWh ELSE 0])
        gridOutWh == SeqSum([i \in idx |-> IF i \in gridIdx THEN ed(i).gridOutWh ELSE 0])
        hasLoad == hasSolar \/ hasGrid \/ hasBattery
        loadWh == Max(0, solarWh + gridInWh + batteryOutWh - gridOutWh - batteryInWh)
        opt(has, v) == IF has THEN Some(v) ELSE Undefined
    IN [solarWh |-> opt(hasSolar, solarWh),
        batteryInWh |-> opt(hasBattery, batteryInWh),
        batteryOutWh |-> opt(hasBattery, batteryOutWh),
        gridInWh |-> opt(hasGrid, gridInWh),
        gridOutWh |-> opt(hasGrid, gridOutWh),
        loadWh |-> opt(hasLoad, loadWh)]

\* The ledger entry stored at bootstrapping: the current totals; master and
\* slave solar start at 0.
BootstrapSnapshot(current) == [total |-> current, master |-> 0, slave |-> 0]

\* Mutant: the sequence counter is incremented before the null returns.
NextSequenceNumber_CountsEveryCall(seq, reported) == seq + 1

\* this.sequenceNumber++ happens only on the path that builds a report.
NextSequenceNumber(seq, reported) == IF reported THEN seq + 1 ELSE seq

\* The characters of the decimal digits 0..9.
DecimalDigits == <<"0", "1", "2", "3", "4", "5", "6", "7", "8", "9">>

RECURSIVE NumberToString(_)
\* Number.prototype.toString() of a non-negative integer (the ${...} of a
\* template literal), as a sequence of characters.
NumberToString(n) ==
    IF n < 10 THEN <<DecimalDigits[n + 1]>>
    ELSE Append(NumberToString(n \div 10), DecimalDigits[(n % 10) + 1])

\* Date.now().toString(): `digits` are the decimal digits of the epoch
\* milliseconds (a 13-digit number, beyond the integers TLC computes with).
DateNowToString(digits) == [i \in 1..Len(digits) |-> DecimalDigits[digits[i] + 1]]

\* `${this.sessionId}/${this.sequenceNumber}`
FormatSequence(session, n) == session \o <<"/">> \o NumberToString(n)

\* The part of a sequence field before its first "/".
SequencePrefix(sequence) ==
    SubSeq(sequence, 1, (CHOOSE i \in 1..Len(sequence) : sequence[i] = "/" /\ \A j \in 1..(i - 1) : sequence[j] # "/") - 1)

RECURSIVE ParseNumber(_)
\* The number a sequence of decimal digit characters denotes.
ParseNumber(chars) ==
    IF chars = <<>> THEN 0
    ELSE 10 * ParseNumber(SubSeq(chars, 1, Len(chars) - 1))
         + (CHOOSE d \in 0..9 : DecimalDigits[d + 1] = chars[Len(chars)])

\* The N of a sequence field: the number after its first "/".
SequenceN(sequence) ==
    ParseNumber(SubSeq(sequence, Len(SequencePrefix(sequence)) + 2, Len(sequence)))

\* energyTotals.x || 0 for every field of getEnergyTotals().
TotalCurrentWh(energyTotals) ==
    [k \in DOMAIN energyTotals |-> IF IsDefined(energyTotals[k]) THEN Val(energyTotals[k]) ELSE 0]

\* Mutant: the ledger is replaced by the raw current totals.
NextSnapshot_RawCurrent(lastSnapshot, delta, current) == current

\* nextSnapshot: the previous ledger entry advanced by the rounded delta.
NextSnapshot(lastSnapshot, delta, current) ==
    [k \in DOMAIN delta |-> lastSnapshot[k] + delta[k] * WhScale]

\* Mutant: the slave share is rounded from its own ratio.
SlaveShare_RoundedOnItsOwn(deltaSolarWh, masterShareWh, slavePowerW, totalSolarPowerW) ==
    RoundDiv(deltaSolarWh * slavePowerW, totalSolarPowerW)

\* slaveSolarIntervalWh = delta.solarWh - masterSolarIntervalWh
SlaveShare(deltaSolarWh, masterShareWh, slavePowerW, totalSolarPowerW) ==
    deltaSolarWh - masterShareWh

\* The report path of generateFroniusMinutely(): `snapshot` is the ledger
\* entry of the previous call, `current` the current totals, `delta` the
\* rounded energy since the previous call in whole Wh.
MinutelyReport(invs, snapshot, session, seq, current, delta) ==
    LET idx == 1..Len(invs)
        solarOf(i) ==
            IF IsDefined(invs[i].lastPowerData) /\ IsDefined(Val(invs[i].lastPowerData).solarW)
            THEN Val(Val(invs[i].lastPowerData).solarW) ELSE 0
        masterPowerW == SeqSum([i \in idx |-> IF invs[i].isMaster THEN solarOf(i) ELSE 0])
        slavePowerW == SeqSum([i \in idx |-> IF invs[i].isMaster THEN 0 ELSE solarOf(i)])
        split == masterPowerW + slavePowerW > 0 /\ delta.solarWh > 0
        masterSolarIntervalWh == IF split THEN RoundDiv(delta.solarWh * masterPowerW, masterPowerW + slavePowerW) ELSE 0
        slaveSolarIntervalWh ==
            IF split THEN SlaveShare(delta.solarWh, masterSolarIntervalWh, slavePowerW, masterPowerW + slavePowerW) ELSE 0
        faulty == {i \in idx : IsDefined(invs[i].faultCode)}
    IN [ledger |-> Some([total |-> NextSnapshot(snapshot.total, delta, current),
                         master |-> snapshot.master + masterSolarIntervalWh,
                         slave |-> snapshot.slave + slaveSolarIntervalWh]),
        sequenceNumber |-> NextSequenceNumber(seq, TRUE),
        report |-> Some([type |-> "froniusMinutely",
                         sequence |-> FormatSequence(session, NextSequenceNumber(seq, TRUE)),
                         solarW |-> masterPowerW + slavePowerW,
                         solarIntervalWh |-> delta.solarWh,
                         solarLocalW |-> masterPowerW,
                         solarLocalIntervalWh |-> masterSolarIntervalWh,
                         solarRemoteW |-> slavePowerW,
                         solarRemoteIntervalWh |-> slaveSolarIntervalWh,
                         loadIntervalWh |-> delta.loadWh,
                         batteryInIntervalWh |-> delta.batteryInWh,
                         batteryOutIntervalWh |-> delta.batteryOutWh,
                         gridInIntervalWh |-> delta.gridInWh,
                         gridOutIntervalWh |-> delta.gridOutWh,
                         faultCode |-> IF faulty # {} THEN invs[CHOOSE i \in faulty : \A j \in faulty : i <= j].faultCode ELSE Undefined])]

\* generateFroniusMinutely() once getEnergyTotals() has returned
\* `energyTotals`: null without solar and grid data; null, storing the
\* current totals, at bootstrapping; otherwise the report.
MinutelyFromTotals(invs, ledger, session, seq, energyTotals) ==
    IF ~IsDefined(energyTotals.solarWh) /\ ~IsDefined(energyTotals.gridInWh) THEN
        [ledger |-> ledger, sequenceNumber |-> NextSequenceNumber(seq, FALSE), report |-> Undefined]
    ELSE IF ~IsDefined(ledger) THEN
        [ledger |-> Some(BootstrapSnapshot(TotalCurrentWh(energyTotals))),
         sequenceNumber |-> NextSequenceNumber(seq, FALSE),
         report |-> Undefined]
    ELSE
        MinutelyReport(invs, Val(ledger), session, seq, TotalCurrentWh(energyTotals),
                       [k \in DOMAIN energyTotals |-> RoundWh(TotalCurrentWh(energyTotals)[k] - Val(ledger).total[k])])

\* Site.generateFroniusMinutely() on inverters `invs`, ledger `ledger`,
\* session ID `session`
\* (this.lastEnergySnapshot; <<>> before bootstrapping) and counter `seq`:
\* the new ledger, the new counter and the report (<<>> is null).
\* Ledger values are Wh * WhScale; the report's interval fields are whole Wh.
GenerateFroniusMinutely(invs, ledger, session, seq) ==
    MinutelyFromTotals(invs, ledger, session, seq, GetEnergyTotals(invs))

\* Map.prototype.set(inv.serialNumber, inv) on the insertion-ordered map.
MapSet(invs, inv) ==
    IF inv.serialNumber \in Serials(invs)
    THEN [i \in 1..Len(invs) |-> IF invs[i].serialNumber = inv.serialNumber THEN inv ELSE invs[i]]
    ELSE Append(invs, inv)

\* ------------------------------------------------------ push client

\* Strings that the code inspects are sequences of characters.
UpperCaseLetters == <<"A", "B", "C", "D", "E", "F", "G", "H", "I", "J", "K", "L", "M", "N", "O", "P", "Q", "R", "S", "T", "U", "V", "W", "X", "Y", "Z">>

LowerCaseLetters == <<"a", "b", "c", "d", "e", "f", "g", "h", "i", "j", "k", "l", "m", "n", "o", "p", "q", "r", "s", "t", "u", "v", "w", "x", "y", "z">>

\* String.prototype.toLowerCase()
ToLowerCase(str) ==
    [i \in 1..Len(str) |->
        IF \E k \in 1..Len(UpperCaseLetters) : UpperCaseLetters[k] = str[i]
        THEN LowerCaseLetters[CHOOSE k \in 1..Len(UpperCaseLetters) : UpperCaseLetters[k] = str[i]]
        ELSE str[i]]

\* String.prototype.startsWith(prefix)
StartsWith(str, prefix) == Len(str) >= Len(prefix) /\ SubSeq(str, 1, Len(prefix)) = prefix

\* A string value that is truthy: set and not empty.
Truthy(str) == IsDefined(str) /\ Val(str) # <<>>

\* "/api/push/fronius"
ApiPath == <<"/", "a", "p", "i", "/", "p", "u", "s", "h", "/", "f", "r", "o", "n", "i", "u", "s">>

\* The configuration that initialize() leaves in this.config for the
\* environment e.
Initialize(e) ==
    LET anyVarSet == IsDefined(e.apiKey) \/ IsDefined(e.server) \/ IsDefined(e.enabledStr)
        enabledError == ~IsDefined(e.enabledStr) \/ Val(e.enabledStr) \notin {"true", "false"}
        apiKeyError == ~Truthy(e.apiKey) \/ ~StartsWith(Val(e.apiKey), <<"f", "r", "_">>)
        serverError ==
            \/ ~Truthy(e.server)
            \/ /\ ~StartsWith(ToLowerCase(Val(e.server)), <<"h", "t", "t", "p", ":", "/", "/">>)
               /\ ~StartsWith(ToLowerCase(Val(e.server)), <<"h", "t", "t", "p", "s", ":", "/", "/">>)
    IN IF ~anyVarSet THEN [apiKey |-> Undefined, apiUrl |-> Undefined, enabled |-> FALSE]
       ELSE IF enabledError \/ apiKeyError \/ serverError
       THEN [apiKey |-> IF Truthy(e.apiKey) THEN e.apiKey ELSE Undefined,
             apiUrl |-> IF Truthy(e.server) THEN Some(Val(e.server) \o ApiPath) ELSE Undefined,
             enabled |-> FALSE]
       ELSE [apiKey |-> e.apiKey,
             apiUrl |-> Some(Val(e.server) \o ApiPath),
             enabled |-> (Val(e.enabledStr) = "true")]

\* The guard of pushFroniusMinutely(): enabled, with an API key and a URL.
PushMayPost(cfg) == cfg.enabled /\ Truthy(cfg.apiKey) /\ Truthy(cfg.apiUrl)

\* pushFroniusMinutely(data) up to its await of axios.post, or its early
\* return: the POSTs awaited afterwards.
PostsOnPush(cfg, posts, data) == IF PushMayPost(cfg) THEN posts \cup {data} ELSE posts

\* How the axios.post of a push ends: a 2xx response whose body says
\* success or not, an error response with a status, no response at all
\* (timeout, refused, DNS), or an error before the request was sent.
Responded(success) == [kind |-> "response", status |-> 200, success |-> success]

HttpError(status) == [kind |-> "httpError", status |-> status, success |-> FALSE]

NoResponse == [kind |-> "noResponse", status |-> 0, success |-> FALSE]

SetupError == [kind |-> "setup", status |-> 0, success |-> FALSE]

\* Mutant: only 401 disables the client.
AfterPush_NotFoundKeepsEnabled(cfg, lastPush, data, outcome) ==
    [config |-> IF outcome.kind = "httpError" /\ outcome.status = 401 THEN [cfg EXCEPT !.enabled = FALSE] ELSE cfg,
     lastPushTimestamp |-> IF outcome.kind = "response" /\ outcome.success THEN Some(data.timestamp) ELSE lastPush]

\* Mutant: a duplicate (409) counts as pushed.
AfterPush_DuplicateCountsAsPushed(cfg, lastPush, data, outcome) ==
    [config |-> IF outcome.kind = "httpError" /\ outcome.status \in {401, 404} THEN [cfg EXCEPT !.enabled = FALSE] ELSE cfg,
     lastPushTimestamp |-> IF (outcome.kind = "response" /\ outcome.success) \/ (outcome.kind = "httpError" /\ outcome.status = 409)
                           THEN Some(data.timestamp) ELSE lastPush]

\* pushFroniusMinutely(data) after its axios.post ended in `outcome`: the
\* configuration and lastPushTimestamp it leaves.
AfterPush(cfg, lastPush, data, outcome) ==
    [config |-> IF outcome.kind = "httpError" /\ outcome.status \in {401, 404} THEN [cfg EXCEPT !.enabled = FALSE] ELSE cfg,
     lastPushTimestamp |-> IF outcome.kind = "response" /\ outcome.success THEN Some(data.timestamp) ELSE lastPush]

\* Mutant: a push that got no response is sent again.
PostsAfter_RetriesWithoutResponse(posts, data, outcome) ==
    IF outcome.kind = "noResponse" THEN posts ELSE posts \ {data}

\* The POSTs still awaited once the push of `data` has ended in `outcome`:
\* the catch block logs and pushFroniusMinutely() returns.
PostsAfter(posts, data, outcome) == posts \ {data}

\* ------------------------------------------------------ GET /api/sse

\* The connections to GET /api/sse.
Subscribers == {1, 2}

\* A chunk enqueued on a connection's stream: a comment, a named event of
\* the replay, or the n-th event the site emitted.
Chunk(type) == [type |-> type, n |-> 0]

Event(n) == [type |-> "event", n |-> n]

\* A connection that has not been opened yet. subscribedAt (the number of
\* events emitted before its handlers were registered) and openedAfter (the
\* status that had disabled the push client when it was opened) are kept
\* for the properties.
NewSubscriber ==
    [pc |-> "idle", isConnected |-> FALSE, aborted |-> FALSE, abortHandler |-> FALSE, closed |-> FALSE,
     timer |-> FALSE, chunks |-> <<>>, read |-> 0, subscribedAt |-> 0, openedAfter |-> Undefined]

\* site.getLiveOneService(): the push client, absent when none of the
\* LIVEONE_ variables is set.
HasLiveOneService(e) == IsDefined(e.apiKey) \/ IsDefined(e.server) \/ IsDefined(e.enabledStr)

\* testConnection() sends its POST iff an API key and a URL are configured.
TestMayPost(cfg) == Truthy(cfg.apiKey) /\ Truthy(cfg.apiUrl)

\* start() from the replay on: siteUpdate, the latest siteMetrics if any,
\* hiresHistory, minutelyHistory; then the handlers and the heartbeat timer
\* are registered and the abort listener is added (a listener added to a
\* signal that has aborted already never runs). `count` is the number of
\* events emitted so far.
Registered(sub, count, latestSiteMetrics) ==
    [sub EXCEPT !.chunks = @ \o <<Chunk("siteUpdate")>>
                             \o (IF IsDefined(latestSiteMetrics) THEN <<Chunk("siteMetrics")>> ELSE <<>>)
                             \o <<Chunk("hiresHistory"), Chunk("minutelyHistory")>>,
                !.timer = TRUE,
                !.abortHandler = ~sub.aborted,
                !.subscribedAt = count,
                !.pc = "live"]

\* The capacity of a subscriber's delivery queue (suggested: 64), scaled to
\* the number of chunks a connection of this model is sent.
QueueCapacity == 6

\* The chunks enqueued on a connection's stream that the transport has not
\* read yet.
Queued(sub) == SubSeq(sub.chunks, sub.read + 1, Len(sub.chunks))

RECURSIVE Emit(_, _, _)
\* EventEmitter.emit: the handlers of the connections `ls` run in order on
\* the connection states `ss`. A handler enqueues the chunk when isConnected;
\* controller.enqueue throws on a closed stream, and the exception ends the
\* emit before the handlers after it are called.
Emit(ls, ss, chunk) ==
    IF ls = <<>> THEN [subs |-> ss, threw |-> FALSE]
    ELSE IF ~ss[Head(ls)].isConnected THEN Emit(Tail(ls), ss, chunk)
    ELSE IF ss[Head(ls)].closed THEN [subs |-> ss, threw |-> TRUE]
    ELSE Emit(Tail(ls), [ss EXCEPT ![Head(ls)].chunks = Append(@, chunk)], chunk)

\* ------------------------------------------------------------ state

VARIABLES
    \* --- Site (lib/site.ts)
    now,                     \* the wall clock, ms since getSite() created the site
    inverters,               \* this.inverters: the Inverter objects in insertion order
    polls,                   \* pollAllInverters() calls awaiting Promise.allSettled: the requests
                             \* pending and those settled (heartbeat emitted)
    scans,                   \* scanForDevices() calls past the isScanning guard, by call number
    isScanning,              \* this.isScanning
    scansStarted,            \* scanForDevices() calls made so far
    sessionId,               \* this.sessionId, as a sequence of characters
    sequenceNumber,          \* this.sequenceNumber
    lastEnergySnapshot,      \* this.lastEnergySnapshot (<<>> before bootstrapping)
    froniusMinutelyHistory,  \* this.froniusMinutelyHistory, each report as its sequence field
    siteMetricsHistory,      \* this.siteMetricsHistory, each snapshot as its timestamp
    lastSiteMetrics,         \* this.lastSiteMetrics
    \* --- what the latest step did
    emitted,                 \* the events the latest step emitted, in order
    scanReport,              \* the latest step as a scan request: started, refused, completed
    observed,                \* the inverter set the latest step's poll or minutely report read
    fetched,                 \* the fetchPowerFlow() calls that returned in the latest step
    ledgerAudit,             \* the ledger at bootstrapping and the sum of the deltas reported since
    \* --- integrator harness
    integ,                   \* an EnergyIntegrator
    bidir,                   \* a BidirectionalEnergyIntegrator
    calls,                   \* updatePower calls made so far
    lastCall,                \* the latest updatePower call: receiver, arguments, pre-state
    afterAbsent,             \* TRUE iff the EnergyIntegrator's latest call had absent power
    \* --- LiveOnePushService
    env,                     \* process.env: LIVEONE_API_KEY, LIVEONE_SERVER, LIVEONE_ENABLED
    config,                  \* this.config: apiKey, apiUrl, enabled
    lastPushTimestamp,       \* this.lastPushTimestamp
    posting,                 \* the minutely records whose axios.post is awaited
    postLog,                 \* the sequence numbers of the records POSTed so far, one entry per POST
    minutes,                 \* minutely records handed to the push client so far
    pushResult,              \* the push that settled in the latest step: record, outcome, state before
    disabledBy,              \* the HTTP status whose handling disabled the client, if any
    \* --- GET /api/sse
    subs,                    \* per connection: position in start(), isConnected, the abort signal,
                             \* the stream, the heartbeat timer, the chunks enqueued and those read
    listeners,               \* the connections whose handlers are registered on the site, in order
    published,               \* events the site has emitted so far
    beats,                   \* heartbeat timer firings so far
    reads,                   \* reads of the transport so far
    \* --- the wall clock of the minutely timer
    startedAt,               \* when startPolling() ran, in ms past a minute boundary
    minutelyRuns             \* when generateAndEmitFroniusMinutely() ran, on the same scale

siteVars == <<now, inverters, polls, scans, isScanning, scansStarted, sessionId, ledgerAudit, sequenceNumber, lastEnergySnapshot, froniusMinutelyHistory, siteMetricsHistory, lastSiteMetrics, emitted, scanReport, observed, fetched>>

intVars == <<integ, bidir, calls, lastCall, afterAbsent>>

pushVars == <<env, config, lastPushTimestamp, posting, postLog, minutes, pushResult, disabledBy>>

\* The push client's state without what the latest step did.
pushState == <<env, config, lastPushTimestamp, posting, postLog, minutes, disabledBy>>

sseVars == <<subs, listeners, published, beats, reads>>

streamVars == <<pushVars, sseVars>>

clockVars == <<startedAt, minutelyRuns>>

vars == <<now, inverters, polls, scans, isScanning, scansStarted, sessionId, ledgerAudit, sequenceNumber, lastEnergySnapshot, froniusMinutelyHistory, siteMetricsHistory, lastSiteMetrics, emitted, scanReport, observed, fetched, integ, bidir, calls, lastCall, afterAbsent, env, config, lastPushTimestamp, posting, postLog, minutes, pushResult, disabledBy, subs, listeners, published, beats, reads, startedAt, minutelyRuns>>

\* ------------------------------------------------------------ inputs

\* The inverters on the network.
SerialNumbers == {"A", "B"}

\* Date.now() when the process constructs the Site, as decimal digits.
ProcessStartTimes ==
    {<<1, 7, 6, 2, 4, 2, 5, 6, 0, 0, 0, 0, 0>>,
     <<1, 7, 6, 2, 4, 2, 5, 6, 4, 3, 9, 8, 1>>}

\* What an inverter answers to a poll.
Responses ==
    {ErrorResponse,
     NoSiteResponse,
     SiteResponse(Some(PowerW), Some(-PowerW), Some(PowerW), Some(7))}

\* What the GetPowerFlowRealtimeData request of checkIfMaster() ends in: an
\* error, a body with Inverters but no Site, or a body with Site whose P_Load
\* is `load` (<<>>: null or missing).
CheckFails == [kind |-> "error", P_Load |-> Undefined]

CheckInvertersOnly == [kind |-> "inverters", P_Load |-> Undefined]

CheckSite(load) == [kind |-> "site", P_Load |-> load]

\* checkIfMaster(ip): master iff the Site data carries a P_Load that is
\* neither undefined nor null.
checkIfMaster(answer) == answer.kind = "site" /\ IsDefined(answer.P_Load)

\* The FroniusDevice that discoverFroniusInverters() pushes for the device
\* with serial number s whose master check got `answer` (kept with the
\* device to tell afterwards what the flag was derived from).
DiscoveredDevice(s, answer) == [serialNumber |-> s, isMaster |-> checkIfMaster(answer), powerFlow |-> answer]

\* Inverter A has the smart meter (checkIfMaster finds it) and a battery;
\* inverter B has neither.
Device(s) == DiscoveredDevice(s, IF s = "A" THEN CheckSite(Some(PowerW)) ELSE CheckSite(Undefined))

\* What fetchBatteryInfo may resolve to for a device: a battery record, or
\* undefined (no battery, or the request failed).
BatteryAnswers(s) == IF s = "A" THEN BOOLEAN ELSE {FALSE}

\* What discoverFroniusInverters() resolves to: the devices that answered,
\* with distinct serial numbers, in any order.
DiscoveryResults ==
    {<<>>}
    \cup {<<Device(s)>> : s \in SerialNumbers}
    \cup {<<Device(p[1]), Device(p[2])>> : p \in {q \in SerialNumbers \X SerialNumbers : q[1] # q[2]}}

\* What checkIfMaster() may get from any device of a network on which any
\* unit may have a meter: a load of 0 W is a load.
MasterCheckAnswers == {CheckFails, CheckInvertersOnly, CheckSite(Undefined), CheckSite(Some(0)), CheckSite(Some(PowerW))}

\* What discoverFroniusInverters() resolves to on such a network.
AnyDiscoveryResults ==
    {<<>>}
    \cup {<<DiscoveredDevice(s, a)>> : s \in SerialNumbers, a \in MasterCheckAnswers}
    \cup {<<DiscoveredDevice(p[1], a), DiscoveredDevice(p[2], b)>> :
            p \in {q \in SerialNumbers \X SerialNumbers : q[1] # q[2]}, a \in MasterCheckAnswers, b \in MasterCheckAnswers}

\* process.env with none of the LIVEONE_ variables set.
NoEnvironment == [apiKey |-> Undefined, server |-> Undefined, enabledStr |-> Undefined]

\* A valid API key and a valid server.
ValidApiKey == Some(<<"f", "r", "_", "1">>)

ValidServer == Some(<<"H", "t", "t", "p", "s", ":", "/", "/", "x">>)

\* The environments the process may be started in: nothing set; all valid
\* and enabled; all valid and not enabled; an API key without the fr_
\* prefix; only LIVEONE_ENABLED set.
Environments ==
    {NoEnvironment,
     [apiKey |-> ValidApiKey, server |-> ValidServer, enabledStr |-> Some("true")],
     [apiKey |-> ValidApiKey, server |-> ValidServer, enabledStr |-> Some("false")],
     [apiKey |-> Some(<<"k", "e", "y">>), server |-> ValidServer, enabledStr |-> Some("true")],
     [apiKey |-> Undefined, server |-> Undefined, enabledStr |-> Some("true")],
     [apiKey |-> ValidApiKey, server |-> Some(<<"f", "t", "p", ":", "/", "/", "x">>), enabledStr |-> Some("true")],
     [apiKey |-> ValidApiKey, server |-> ValidServer, enabledStr |-> Some("yes")]}

\* The environments the subscribers are run in: no push client, a push
\* client that is configured and enabled, and one without key and server.
SubscriberEnvironments ==
    {NoEnvironment,
     [apiKey |-> ValidApiKey, server |-> ValidServer, enabledStr |-> Some("true")],
     [apiKey |-> Undefined, server |-> Undefined, enabledStr |-> Some("true")]}

\* How the POST of a minutely record may end.
PushOutcomes ==
    {Responded(TRUE), Responded(FALSE), HttpError(400), HttpError(401), HttpError(404), HttpError(409),
     HttpError(500), HttpError(503), NoResponse, SetupError}

\* When the process may start, in ms past a minute boundary.
StartOffsets == {0, 1000, MinutelyOffsetMs, 30000, 59000}

\* ------------------------------------------------------------ events

ScanStatusEvent(state) == [type |-> "scanStatus", state |-> state]

SiteUpdateEvent(invs) == [type |-> "siteUpdate", devices |-> [i \in 1..Len(invs) |-> invs[i].serialNumber]]

\* Mutant: the heartbeat reports online whatever fetchPowerFlow() returned.
HeartbeatEvent_AlwaysOnline(serialNumber, online) == [type |-> "inverterHeartbeat", serialNumber |-> serialNumber, status |-> "online"]

\* pollInverter(): status is powerData ? 'online' : 'offline'.
HeartbeatEvent(serialNumber, online) == [type |-> "inverterHeartbeat", serialNumber |-> serialNumber, status |-> IF online THEN "online" ELSE "offline"]

SiteMetricsEvent(metrics) == [type |-> "siteMetrics", timestamp |-> metrics.timestamp]

\* ----------------------------------------------- what a step did

NoScanReport == [kind |-> "none"]

\* The scan task that is replacing the inverter set, if any.
Adopting == {id \in DOMAIN scans : scans[id].pc = "adopting"}

\* A read of this.inverters by `reader`, with the complete sets a reader may
\* see: the set before the running replacement and the set after it.
Observation(reader, invs) ==
    LET id == CHOOSE i \in Adopting : TRUE
    IN Some([reader |-> reader,
             serials |-> Serials(invs),
             preScan |-> IF Adopting = {} THEN Serials(invs) ELSE scans[id].preSerials,
             postScan |-> IF Adopting = {} THEN Serials(invs) ELSE Serials(scans[id].devices)])

\* The accumulated energies of every inverter of `invs`, by serial number.
EnergyBySerial(invs) ==
    [s \in Serials(invs) |-> GetEnergyData(invs[CHOOSE i \in 1..Len(invs) : invs[i].serialNumber = s])]

\* The requests a round still waits for when only the first failure were
\* waited for (Promise.all over polls that reject).
PendingAfterFetch_FailureEndsWait(pending, obj, resp) ==
    IF FetchReturnsData(resp) THEN pending \ {obj} ELSE {}

\* The requests a round still waits for once the poll of Inverter object obj
\* has settled with resp: pollInverter() never rejects and
\* Promise.allSettled waits for every poll, whatever each one returned.
PendingAfterFetch(pending, obj, resp) == pending \ {obj}

\* A fetchPowerFlow() call on Inverter `before` that got `resp`, left the
\* inverter as `after`, and whether it returned a PowerData (not null).
Fetch(before, resp, after) ==
    [serialNumber |-> before.serialNumber, response |-> resp,
     before |-> before, after |-> after, returnedData |-> FetchReturnsData(resp)]

\* The quantities of the minutely ledger and the report field of each.
IntervalField ==
    [solarWh |-> "solarIntervalWh", batteryInWh |-> "batteryInIntervalWh",
     batteryOutWh |-> "batteryOutIntervalWh", gridInWh |-> "gridInIntervalWh",
     gridOutWh |-> "gridOutIntervalWh", loadWh |-> "loadIntervalWh"]

\* No generateFroniusMinutely() call has bootstrapped the ledger yet.
NoAudit == [bootstrap |-> Undefined, reported |-> [k \in DOMAIN IntervalField |-> 0]]

\* The audit after a generateFroniusMinutely() call that found the ledger
\* `before`, left it as `after` and returned `report`.
Audit(audit, before, after, report) ==
    [bootstrap |-> IF ~IsDefined(before) /\ IsDefined(after) THEN Some(Val(after).total) ELSE audit.bootstrap,
     reported |-> IF IsDefined(report)
                  THEN [k \in DOMAIN IntervalField |-> audit.reported[k] + Val(report)[IntervalField[k]]]
                  ELSE audit.reported]

\* ------------------------------------------------------------- Init

\* The integrator harness before any call.
NoCall == [target |-> "none", powerW |-> Undefined, timestamp |-> 0, before |-> NewEnergyIntegrator, beforeBi |-> NewBidirectionalEnergyIntegrator, afterAbsent |-> FALSE]

IntInit ==
    /\ integ = NewEnergyIntegrator
    /\ bidir = NewBidirectionalEnergyIntegrator
    /\ calls = 0
    /\ lastCall = NoCall
    /\ afterAbsent = FALSE

\* A scanForDevices() call awaiting discoverFroniusInverters().
DiscoveringTask == [pc |-> "discovering", devices |-> <<>>, idx |-> 0, preSerials |-> {}, preEnergy |-> <<>>]

\* The site after getSite(): new Site(), startPolling(2000) whose initial
\* poll of the empty inverter set has built its site metrics, and
\* scanForDevices() awaiting discovery (called by getSite(), with no HTTP
\* request to respond to).
SiteInit ==
    /\ now = 0
    /\ inverters = <<>>
    /\ polls = {}
    /\ scans = (1 :> DiscoveringTask)
    /\ isScanning = TRUE
    /\ scansStarted = 1
    /\ sessionId \in {DateNowToString(d) : d \in ProcessStartTimes}
    /\ sequenceNumber = 0
    /\ lastEnergySnapshot = Undefined
    /\ ledgerAudit = NoAudit
    /\ froniusMinutelyHistory = <<>>
    /\ siteMetricsHistory = <<0>>
    /\ lastSiteMetrics = Some(BuildSiteMetrics(<<>>, 0))
    /\ emitted = <<ScanStatusEvent("SCANNING"), SiteMetricsEvent(BuildSiteMetrics(<<>>, 0))>>
    /\ scanReport = [kind |-> "started", id |-> 1, response |-> Undefined]
    /\ observed = Some([reader |-> "poll", serials |-> {}, preScan |-> {}, postScan |-> {}])
    /\ fetched = <<>>

\* The push service constructed in environment e, nothing handed to it yet.
PushInit(e) ==
    /\ env = e
    /\ config = Initialize(e)
    /\ lastPushTimestamp = Undefined
    /\ posting = {}
    /\ postLog = <<>>
    /\ minutes = 0
    /\ pushResult = Undefined
    /\ disabledBy = Undefined

\* No connection to GET /api/sse yet.
SseInit ==
    /\ subs = [s \in Subscribers |-> NewSubscriber]
    /\ listeners = <<>>
    /\ published = 0
    /\ beats = 0
    /\ reads = 0

\* The process started without push configuration, no subscriber yet.
StreamInit == PushInit(NoEnvironment) /\ SseInit

\* startPolling() ran t ms past a minute boundary; its minutely timer has
\* not fired yet.
ClockInit(t) ==
    /\ startedAt = t
    /\ minutelyRuns = <<>>

Init == SiteInit /\ IntInit /\ StreamInit /\ ClockInit(0)

\* ---------------------------------------------------------- polling

\* The tail of pollAllInverters() after Promise.allSettled: the new
\* siteMetricsHistory (push, then keep the last 10 minutes).
PushSiteMetrics(history, metrics, t) ==
    SelectSeq(Append(history, metrics.timestamp), LAMBDA ts : ts >= t - HistoryWindowMs)

\* Mutant: the snapshot carries the time of the tick that started its round.
MetricsTime_OfTick(tick, settledAt) == tick

\* timestamp: formatLocalDateTime(new Date()), taken after the await of
\* Promise.allSettled: the time the round's last request settled.
MetricsTime(tick, settledAt) == settledAt

\* Mutant: a tick is skipped while a polling round is in flight.
PollMayStart_SkipsWhileInFlight == polls = {}

\* setInterval(async () => await this.pollAllInverters(), 2000) carries no
\* in-progress flag: every tick starts a round.
PollMayStart == TRUE

\* The 2-second timer fires: pollAllInverters() up to its await. Each
\* pollInverter() has issued its request. With no inverters the round
\* completes in the same turn of the event loop.
\* Time passes only here; a request still pending after FetchTimeoutMs has
\* failed with a timeout before the tick.
PollTickWithin(maxPolls) ==
    /\ now < maxPolls * PollIntervalMs
    /\ \A r \in polls : r.start + FetchTimeoutMs > now + PollIntervalMs
    /\ now' = now + PollIntervalMs
    /\ IF ~PollMayStart
       THEN /\ emitted' = <<>>
            /\ observed' = Undefined
            /\ UNCHANGED <<polls, lastSiteMetrics, siteMetricsHistory>>
       ELSE IF inverters = <<>>
       THEN LET metrics == BuildSiteMetrics(inverters, MetricsTime(now', now'))
            IN /\ lastSiteMetrics' = Some(metrics)
               /\ siteMetricsHistory' = PushSiteMetrics(siteMetricsHistory, metrics, now')
               /\ emitted' = <<SiteMetricsEvent(metrics)>>
               /\ observed' = Observation("poll", inverters)
               /\ UNCHANGED polls
       ELSE /\ polls' = polls \cup {[start |-> now', settled |-> {},
                                     pending |-> {<<inverters[i].serialNumber, inverters[i].id>> : i \in 1..Len(inverters)}]}
            /\ emitted' = <<>>
            /\ observed' = Observation("poll", inverters)
            /\ UNCHANGED <<lastSiteMetrics, siteMetricsHistory>>
    /\ scanReport' = NoScanReport
    /\ fetched' = <<>>
    /\ UNCHANGED <<inverters, scans, isScanning, scansStarted, sessionId, ledgerAudit, sequenceNumber, lastEnergySnapshot, froniusMinutelyHistory>>

PollTick == PollTickWithin(MaxPolls)

\* The request of round r to Inverter object obj = <<serial, id>> settles
\* with response resp: the rest of fetchPowerFlow() and of pollInverter()
\* (the heartbeat). An object that a rescan has dropped from this.inverters
\* is still updated, out of the site's sight (and of `fetched`). When it was the round's last
\* request, pollAllInverters() resumes in the same turn: it builds the site
\* metrics from this.inverters as it is now, stores and emits them.
FetchReturns(r, obj, resp) ==
    /\ r \in polls
    /\ obj \in r.pending
    /\ LET updated == [i \in 1..Len(inverters) |->
                          IF inverters[i].serialNumber = obj[1] /\ inverters[i].id = obj[2]
                          THEN Inverter_fetchPowerFlow(inverters[i], resp, now)
                          ELSE inverters[i]]
           heartbeat == HeartbeatEvent(obj[1], FetchReturnsData(resp))
           rest == PendingAfterFetch(r.pending, obj, resp)
           metrics == BuildSiteMetrics(updated, MetricsTime(r.start, now))
       IN /\ inverters' = updated
          /\ IF rest = {}
             THEN /\ polls' = polls \ {r}
                  /\ lastSiteMetrics' = Some(metrics)
                  /\ siteMetricsHistory' = PushSiteMetrics(siteMetricsHistory, metrics, now)
                  /\ emitted' = <<heartbeat, SiteMetricsEvent(metrics)>>
                  /\ observed' = Observation("poll", updated)
             ELSE /\ polls' = (polls \ {r}) \cup {[r EXCEPT !.pending = rest, !.settled = @ \cup {obj}]}
                  /\ emitted' = <<heartbeat>>
                  /\ observed' = Undefined
                  /\ UNCHANGED <<lastSiteMetrics, siteMetricsHistory>>
    /\ fetched' = [i \in 1..Cardinality({k \in 1..Len(inverters) : inverters[k].serialNumber = obj[1] /\ inverters[k].id = obj[2]}) |->
                      LET k == CHOOSE k \in 1..Len(inverters) : inverters[k].serialNumber = obj[1] /\ inverters[k].id = obj[2]
                      IN Fetch(inverters[k], resp, inverters'[k])]
    /\ scanReport' = NoScanReport
    /\ UNCHANGED <<now, scans, isScanning, scansStarted, sessionId, ledgerAudit, sequenceNumber, lastEnergySnapshot, froniusMinutelyHistory>>

\* ---------------------------------------------------------- minutely

\* The 60-second timer fires: generateAndEmitFroniusMinutely(). The polls
\* between two firings that change nothing (every request failing) are not
\* spelled out, so the timer may fire between any two steps.
MinutelyTick ==
    /\ sequenceNumber < MaxReports
    /\ \E g \in {GenerateFroniusMinutely(inverters, lastEnergySnapshot, sessionId, sequenceNumber)} :
          /\ lastEnergySnapshot' = g.ledger
          /\ ledgerAudit' = Audit(ledgerAudit, lastEnergySnapshot, g.ledger, g.report)
          /\ sequenceNumber' = g.sequenceNumber
          /\ IF IsDefined(g.report)
             THEN /\ froniusMinutelyHistory' =
                        LET h == Append(froniusMinutelyHistory, Val(g.report).sequence)
                        IN IF Len(h) > MinutelyHistoryLimit THEN SubSeq(h, Len(h) - MinutelyHistoryLimit + 1, Len(h)) ELSE h
                  /\ emitted' = <<Val(g.report)>>
             ELSE /\ emitted' = <<>>
                  /\ UNCHANGED froniusMinutelyHistory
    /\ observed' = Observation("minutely", inverters)
    /\ scanReport' = NoScanReport
    /\ fetched' = <<>>
    /\ UNCHANGED <<now, inverters, polls, scans, isScanning, scansStarted, sessionId, siteMetricsHistory, lastSiteMetrics>>

\* ---------------------------------------------------------- scanning

\* Mutant: the isScanning guard is missing.
ScanAlreadyInProgress_NoGuard == FALSE

\* if (this.isScanning) { console.log('Scan already in progress'); return; }
ScanAlreadyInProgress == isScanning

\* Mutant: the finally block clears the flag but publishes no scanStatus IDLE.
FinishScan_NoIdleEvent(id, invs, outcome, result, preSerials, preEnergy) ==
    /\ isScanning' = FALSE
    /\ scans' = [i \in DOMAIN scans \ {id} |-> scans[i]]
    /\ emitted' = <<SiteUpdateEvent(invs)>>
    /\ scanReport' = [kind |-> "completed", id |-> id, outcome |-> outcome,
                      discovered |-> Serials(result), devices |-> result,
                      preSerials |-> preSerials, preEnergy |-> preEnergy,
                      postSerials |-> Serials(invs), postEnergy |-> EnergyBySerial(invs)]

\* The finally block of scanForDevices(), with this.inverters as `invs`:
\* isScanning = false, clearInterval, emit scanStatus IDLE, emit siteUpdate.
\* `outcome` tells how the try block ended ("success", "empty", "failure"),
\* `result` is the discovery result (<<>> when it found nothing or threw),
\* `pre...` the inverter set and energies before the scan touched them.
FinishScan(id, invs, outcome, result, preSerials, preEnergy) ==
    /\ isScanning' = FALSE
    /\ scans' = [i \in DOMAIN scans \ {id} |-> scans[i]]
    /\ emitted' = <<ScanStatusEvent("IDLE"), SiteUpdateEvent(invs)>>
    /\ scanReport' = [kind |-> "completed", id |-> id, outcome |-> outcome,
                      discovered |-> Serials(result), devices |-> result,
                      preSerials |-> preSerials, preEnergy |-> preEnergy,
                      postSerials |-> Serials(invs), postEnergy |-> EnergyBySerial(invs)]

\* Mutant: the handler awaits scanForDevices(), so a request that starts a
\* scan has no response yet when the scan awaits discovery.
ScanResponse_AwaitsScan(refused) ==
    IF refused THEN Some([success |-> TRUE, message |-> "Scan initiated"]) ELSE Undefined

\* POST /api/do {action: "scan"}: scanForDevices() is called and not
\* awaited; once it has returned its promise (at its first await, or at the
\* early return when `refused`), the handler responds.
ScanResponse(refused) == Some([success |-> TRUE, message |-> "Scan initiated"])

\* scanForDevices() is called (POST /api/do {action: "scan"}): up to the
\* await of discoverFroniusInverters(), or the early return; then the
\* handler's response.
ScanRequest ==
    /\ scansStarted < MaxScans
    /\ scansStarted' = scansStarted + 1
    /\ IF ScanAlreadyInProgress
       THEN /\ emitted' = <<>>
            /\ scanReport' = [kind |-> "refused", id |-> scansStarted + 1, response |-> ScanResponse(TRUE)]
            /\ UNCHANGED <<scans, isScanning>>
       ELSE /\ isScanning' = TRUE
            /\ scans' = (scansStarted + 1 :> DiscoveringTask) @@ scans
            /\ emitted' = <<ScanStatusEvent("SCANNING")>>
            /\ scanReport' = [kind |-> "started", id |-> scansStarted + 1, response |-> ScanResponse(FALSE)]
    /\ observed' = Undefined
    /\ fetched' = <<>>
    /\ UNCHANGED <<now, inverters, polls, sessionId, ledgerAudit, sequenceNumber, lastEnergySnapshot, froniusMinutelyHistory, siteMetricsHistory, lastSiteMetrics>>

\* Mutant: the interval is never cleared and republishes unconditionally.
ScanStatusTick_NeverStops(id) ==
    /\ emitted' = <<ScanStatusEvent("SCANNING")>>
    /\ scanReport' = NoScanReport
    /\ observed' = Undefined
    /\ fetched' = <<>>
    /\ UNCHANGED <<now, inverters, polls, scans, isScanning, scansStarted, sessionId, ledgerAudit, sequenceNumber, lastEnergySnapshot, froniusMinutelyHistory, siteMetricsHistory, lastSiteMetrics>>

\* The 1-second scanStatusInterval of scan `id` fires: it exists from the
\* start of the scan until the finally block clears it.
ScanStatusTick(id) ==
    /\ id \in DOMAIN scans
    /\ emitted' = IF isScanning THEN <<ScanStatusEvent("SCANNING")>> ELSE <<>>
    /\ scanReport' = NoScanReport
    /\ observed' = Undefined
    /\ fetched' = <<>>
    /\ UNCHANGED <<now, inverters, polls, scans, isScanning, scansStarted, sessionId, ledgerAudit, sequenceNumber, lastEnergySnapshot, froniusMinutelyHistory, siteMetricsHistory, lastSiteMetrics>>

\* Mutant: the inverters are cleared before the discovery result is looked at.
InvertersAfterDiscovery_ClearsFirst(invs, devices) == <<>>

\* this.inverters once discovery has resolved to `devices`: left alone when
\* nothing was found, cleared for the devices found otherwise.
InvertersAfterDiscovery(invs, devices) == IF devices = <<>> THEN invs ELSE <<>>

\* discoverFroniusInverters() resolves to `devices`. An empty list leaves
\* the inverters alone and ends the scan. Otherwise this.inverters is
\* cleared and the scan awaits the battery, inverter and meter info of the
\* first device.
DiscoveryReturns(id, devices) ==
    /\ id \in DOMAIN scans
    /\ scans[id].pc = "discovering"
    /\ IF devices = <<>>
       THEN /\ FinishScan(id, InvertersAfterDiscovery(inverters, devices), "empty", devices, Serials(inverters), EnergyBySerial(inverters))
            /\ inverters' = InvertersAfterDiscovery(inverters, devices)
       ELSE /\ inverters' = InvertersAfterDiscovery(inverters, devices)
            /\ scans' = [scans EXCEPT ![id] = [pc |-> "adopting", devices |-> devices, idx |-> 1,
                                               preSerials |-> Serials(inverters),
                                               preEnergy |-> EnergyBySerial(inverters)]]
            /\ emitted' = <<>>
            /\ scanReport' = NoScanReport
            /\ UNCHANGED isScanning
    /\ observed' = Undefined
    /\ fetched' = <<>>
    /\ UNCHANGED <<now, polls, scansStarted, sessionId, ledgerAudit, sequenceNumber, lastEnergySnapshot, froniusMinutelyHistory, siteMetricsHistory, lastSiteMetrics>>

\* discoverFroniusInverters() throws: catch, then finally.
DiscoveryFails(id) ==
    /\ id \in DOMAIN scans
    /\ scans[id].pc = "discovering"
    /\ FinishScan(id, inverters, "failure", <<>>, Serials(inverters), EnergyBySerial(inverters))
    /\ observed' = Undefined
    /\ fetched' = <<>>
    /\ UNCHANGED <<now, inverters, polls, scansStarted, sessionId, ledgerAudit, sequenceNumber, lastEnergySnapshot, froniusMinutelyHistory, siteMetricsHistory, lastSiteMetrics>>

\* The Promise.all of fetchBatteryInfo, fetchInverterInfo and fetchMeterInfo
\* for the device at hand resolves (battery: whether a battery record came
\* back): the Inverter is constructed and put into this.inverters; after the
\* last device the scan ends.
AdoptDevice(id, battery) ==
    /\ id \in DOMAIN scans
    /\ scans[id].pc = "adopting"
    /\ battery \in BatteryAnswers(scans[id].devices[scans[id].idx].serialNumber)
    /\ LET task == scans[id]
           device == task.devices[task.idx]
           invs == MapSet(inverters, NewInverter(device.serialNumber, device.isMaster, battery, id))
       IN /\ inverters' = invs
          /\ IF task.idx = Len(task.devices)
             THEN FinishScan(id, invs, "success", task.devices, task.preSerials, task.preEnergy)
             ELSE /\ scans' = [scans EXCEPT ![id].idx = task.idx + 1]
                  /\ emitted' = <<>>
                  /\ scanReport' = NoScanReport
                  /\ UNCHANGED isScanning
    /\ observed' = Undefined
    /\ fetched' = <<>>
    /\ UNCHANGED <<now, polls, scansStarted, sessionId, ledgerAudit, sequenceNumber, lastEnergySnapshot, froniusMinutelyHistory, siteMetricsHistory, lastSiteMetrics>>

\* --------------------------------------------------------------- Next

Next ==
    \/ PollTick /\ UNCHANGED <<intVars, streamVars, clockVars>>
    \/ \E r \in polls : \E obj \in r.pending : \E resp \in Responses : FetchReturns(r, obj, resp) /\ UNCHANGED <<intVars, streamVars, clockVars>>
    \/ MinutelyTick /\ UNCHANGED <<intVars, streamVars, clockVars>>
    \/ ScanRequest /\ UNCHANGED <<intVars, streamVars, clockVars>>
    \/ \E id \in 1..scansStarted : ScanStatusTick(id) /\ UNCHANGED <<intVars, streamVars, clockVars>>
    \/ \E id \in DOMAIN scans : \E devices \in DiscoveryResults : DiscoveryReturns(id, devices) /\ UNCHANGED <<intVars, streamVars, clockVars>>
    \/ \E id \in DOMAIN scans : DiscoveryFails(id) /\ UNCHANGED <<intVars, streamVars, clockVars>>
    \/ \E id \in DOMAIN scans : \E battery \in BOOLEAN : AdoptDevice(id, battery) /\ UNCHANGED <<intVars, streamVars, clockVars>>

Spec == Init /\ [][Next]_vars

\* A step of a running scanForDevices() call: one of its awaits settles.
\* Every await of a scan ends: the discovery's ping, arp and HTTP probes and
\* the three info requests all carry timeouts.
ScanStep ==
    \/ \E id \in DOMAIN scans : \E devices \in DiscoveryResults : DiscoveryReturns(id, devices) /\ UNCHANGED <<intVars, streamVars, clockVars>>
    \/ \E id \in DOMAIN scans : DiscoveryFails(id) /\ UNCHANGED <<intVars, streamVars, clockVars>>
    \/ \E id \in DOMAIN scans : \E battery \in BOOLEAN : AdoptDevice(id, battery) /\ UNCHANGED <<intVars, streamVars, clockVars>>

\* The site with scans that make progress.
FairSpec == Spec /\ WF_vars(ScanStep)

\* ----------------------------------------- the site on any network

\* The site's scans and polls when any discovered unit may report a load.
NetworkNext ==
    \/ PollTick /\ UNCHANGED <<intVars, streamVars, clockVars>>
    \/ \E r \in polls : \E obj \in r.pending : \E resp \in Responses : FetchReturns(r, obj, resp) /\ UNCHANGED <<intVars, streamVars, clockVars>>
    \/ ScanRequest /\ UNCHANGED <<intVars, streamVars, clockVars>>
    \/ \E id \in 1..scansStarted : ScanStatusTick(id) /\ UNCHANGED <<intVars, streamVars, clockVars>>
    \/ \E id \in DOMAIN scans : \E devices \in AnyDiscoveryResults : DiscoveryReturns(id, devices) /\ UNCHANGED <<intVars, streamVars, clockVars>>
    \/ \E id \in DOMAIN scans : DiscoveryFails(id) /\ UNCHANGED <<intVars, streamVars, clockVars>>
    \/ \E id \in DOMAIN scans : \E battery \in BOOLEAN : AdoptDevice(id, battery) /\ UNCHANGED <<intVars, streamVars, clockVars>>

NetworkSpec == Init /\ [][NetworkNext]_vars

\* ------------------------------------------------- the settled site

\* Half the sample power: half a watt-hour in one polling interval.
HalfPowerW == PowerW \div 2

\* What an inverter of the settled site answers to a poll: no answer, full
\* power while running (status 7), half power with the battery discharging
\* and the grid exporting while starting up (status 0), and a reading without
\* battery power in the error state (status 10).
SettledResponses ==
    {ErrorResponse,
     SiteResponse(Some(PowerW), Some(-PowerW), Some(PowerW), Some(7)),
     SiteResponse(Some(HalfPowerW), Some(HalfPowerW), Some(-HalfPowerW), Some(0)),
     SiteResponse(Some(HalfPowerW), Undefined, Some(HalfPowerW), Some(10))}

\* The inverters of the settled site: A (master, with battery) and B.
SettledInverters == <<NewInverter("A", TRUE, TRUE, 1), NewInverter("B", FALSE, FALSE, 1)>>

\* The site once the initial scan has found A and B and finished.
SettledInit ==
    /\ now = 0
    /\ inverters = SettledInverters
    /\ polls = {}
    /\ scans = <<>>
    /\ isScanning = FALSE
    /\ scansStarted = 1
    /\ sessionId \in {DateNowToString(d) : d \in ProcessStartTimes}
    /\ sequenceNumber = 0
    /\ lastEnergySnapshot = Undefined
    /\ ledgerAudit = NoAudit
    /\ froniusMinutelyHistory = <<>>
    /\ siteMetricsHistory = <<0>>
    /\ lastSiteMetrics = Some(BuildSiteMetrics(<<>>, 0))
    /\ emitted = <<ScanStatusEvent("IDLE"), SiteUpdateEvent(SettledInverters)>>
    /\ scanReport = [kind |-> "completed", id |-> 1, outcome |-> "success",
                     discovered |-> Serials(SettledInverters),
                     preSerials |-> {}, preEnergy |-> <<>>,
                     postSerials |-> Serials(SettledInverters),
                     postEnergy |-> EnergyBySerial(SettledInverters)]
    /\ observed = Undefined
    /\ fetched = <<>>
    /\ IntInit
    /\ StreamInit
    /\ ClockInit(0)

\* A polling round whose requests all settle before the next timer event:
\* the timer fires, inverter i answers resps[i], and pollAllInverters()
\* builds, stores and emits the site metrics.
PollRoundWithin(maxRounds, resps) ==
    /\ now < maxRounds * PollIntervalMs
    /\ polls = {}
    /\ now' = now + PollIntervalMs
    /\ inverters' = [i \in 1..Len(inverters) |-> Inverter_fetchPowerFlow(inverters[i], resps[i], now')]
    /\ \E metrics \in {BuildSiteMetrics(inverters', MetricsTime(now', now'))} :
          /\ lastSiteMetrics' = Some(metrics)
          /\ siteMetricsHistory' = PushSiteMetrics(siteMetricsHistory, metrics, now')
          /\ emitted' = [i \in 1..Len(inverters) |-> HeartbeatEvent(inverters[i].serialNumber, FetchReturnsData(resps[i]))]
                          \o <<SiteMetricsEvent(metrics)>>
    /\ observed' = Observation("poll", inverters')
    /\ fetched' = [i \in 1..Len(inverters) |-> Fetch(inverters[i], resps[i], inverters'[i])]
    /\ scanReport' = NoScanReport
    /\ UNCHANGED <<polls, scans, isScanning, scansStarted, sessionId, ledgerAudit, sequenceNumber, lastEnergySnapshot, froniusMinutelyHistory>>

PollRound(resps) == PollRoundWithin(MaxRounds, resps)

SettledNext ==
    \/ \E resps \in [1..Len(inverters) -> SettledResponses] : PollRound(resps) /\ UNCHANGED <<intVars, streamVars, clockVars>>
    \/ MinutelyTick /\ UNCHANGED <<intVars, streamVars, clockVars>>

\* The site after its initial scan, with no rescan and no slow inverter.
SettledSpec == SettledInit /\ [][SettledNext]_vars

\* --------------------------------------- the settled site, rescanned

\* What an inverter answers to a poll before and after a rescan: no answer,
\* or full power while running.
RescanResponses ==
    {ErrorResponse,
     SiteResponse(Some(PowerW), Some(-PowerW), Some(PowerW), Some(7))}

RescanNext ==
    \/ \E resps \in [1..Len(inverters) -> RescanResponses] : PollRoundWithin(MaxRescanRounds, resps) /\ UNCHANGED <<intVars, streamVars, clockVars>>
    \/ MinutelyTick /\ UNCHANGED <<intVars, streamVars, clockVars>>
    \/ ScanRequest /\ UNCHANGED <<intVars, streamVars, clockVars>>
    \/ \E id \in 1..scansStarted : ScanStatusTick(id) /\ UNCHANGED <<intVars, streamVars, clockVars>>
    \/ \E id \in DOMAIN scans : \E devices \in DiscoveryResults : DiscoveryReturns(id, devices) /\ UNCHANGED <<intVars, streamVars, clockVars>>
    \/ \E id \in DOMAIN scans : DiscoveryFails(id) /\ UNCHANGED <<intVars, streamVars, clockVars>>
    \/ \E id \in DOMAIN scans : \E battery \in BOOLEAN : AdoptDevice(id, battery) /\ UNCHANGED <<intVars, streamVars, clockVars>>

\* The site after its initial scan, with rescans on request.
RescanSpec == SettledInit /\ [][RescanNext]_vars

\* ------------------------------------------- integrator harness

\* Timestamps (ms) handed to updatePower.
Timestamps == {k * PollIntervalMs : k \in 0..MaxTime}

\* Powers handed to the solar integrator: absent, zero, PowerW.
SolarPowers == {Undefined, Some(0), Some(PowerW)}

\* Powers handed to a bidirectional integrator: absent, charge/export, zero, discharge/import.
SignedPowers == {Undefined, Some(-PowerW), Some(0), Some(PowerW)}

\* solarIntegrator.updatePower(powerW, timestamp)
UpdateSolar(powerW, timestamp) ==
    /\ calls < MaxCalls
    /\ calls' = calls + 1
    /\ integ' = EI_updatePower(integ, powerW, timestamp)
    /\ lastCall' = [target |-> "solar", powerW |-> powerW, timestamp |-> timestamp, before |-> integ, beforeBi |-> bidir, afterAbsent |-> afterAbsent]
    /\ afterAbsent' = ~IsDefined(powerW)
    /\ UNCHANGED bidir

\* batteryIntegrator.updatePower(powerW, timestamp) / gridIntegrator.updatePower(powerW, timestamp)
UpdateBidirectional(powerW, timestamp) ==
    /\ calls < MaxCalls
    /\ calls' = calls + 1
    /\ bidir' = BI_updatePower(bidir, powerW, timestamp)
    /\ lastCall' = [target |-> "bidir", powerW |-> powerW, timestamp |-> timestamp, before |-> integ, beforeBi |-> bidir, afterAbsent |-> FALSE]
    /\ UNCHANGED <<integ, afterAbsent>>

IntNext ==
    \/ \E p \in SolarPowers, t \in Timestamps : UpdateSolar(p, t) /\ UNCHANGED <<siteVars, streamVars, clockVars>>
    \/ \E p \in SignedPowers, t \in Timestamps : UpdateBidirectional(p, t) /\ UNCHANGED <<siteVars, streamVars, clockVars>>

\* The integrators alone, on any sample history.
IntegratorSpec == Init /\ [][IntNext]_vars

\* -------------------------------------------- push and subscribers

\* The n-th froniusMinutely record, as far as the push client reads it.
MinutelyRecord(n) == [sequence |-> n, timestamp |-> n * MinuteMs]

\* The minutely timer has produced a record and the collector hands it to
\* the push client: one pushFroniusMinutely(data) call per record. The POST
\* of the previous minute has ended by then (its timeout is 10 s).
HandMinutely ==
    /\ minutes < MaxMinutes
    /\ posting = {}
    /\ minutes' = minutes + 1
    /\ posting' = PostsOnPush(config, posting, MinutelyRecord(minutes + 1))
    /\ postLog' = IF MinutelyRecord(minutes + 1) \in posting' THEN Append(postLog, minutes + 1) ELSE postLog
    /\ pushResult' = Undefined
    /\ UNCHANGED <<env, config, lastPushTimestamp, disabledBy>>

\* The axios.post of pushFroniusMinutely(data) ends in `outcome`.
PostReturns(data, outcome) ==
    /\ data \in posting
    /\ config' = AfterPush(config, lastPushTimestamp, data, outcome).config
    /\ lastPushTimestamp' = AfterPush(config, lastPushTimestamp, data, outcome).lastPushTimestamp
    /\ posting' = PostsAfter(posting, data, outcome)
    /\ postLog' = IF data \in posting' THEN Append(postLog, data.sequence) ELSE postLog
    /\ pushResult' = Some([data |-> data, outcome |-> outcome, config |-> config, lastPushTimestamp |-> lastPushTimestamp])
    /\ disabledBy' = IF config.enabled /\ ~config'.enabled THEN Some(outcome.status) ELSE disabledBy
    /\ UNCHANGED <<env, minutes>>

PushNext ==
    \/ HandMinutely /\ UNCHANGED <<clockVars, siteVars, intVars, sseVars>>
    \/ \E data \in posting : \E outcome \in PushOutcomes : PostReturns(data, outcome) /\ UNCHANGED <<clockVars, siteVars, intVars, sseVars>>

\* The process started in any environment, no subscriber yet.
PushSpecInit == SiteInit /\ IntInit /\ SseInit /\ ClockInit(0) /\ \E e \in Environments : PushInit(e)

\* The push client alone.
PushSpec == PushSpecInit /\ [][PushNext]_vars

\* A client opens GET /api/sse: start() up to its await of testConnection(),
\* or to its end when there is nothing to await.
Connect(s) ==
    /\ subs[s].pc = "idle"
    /\ LET opened == [NewSubscriber EXCEPT !.isConnected = TRUE, !.chunks = <<Chunk(":connected")>>,
                                           !.openedAfter = disabledBy]
       IN IF ~HasLiveOneService(env)
          THEN /\ subs' = [subs EXCEPT ![s] = Registered(opened, published, lastSiteMetrics)]
               /\ listeners' = Append(listeners, s)
          ELSE IF ~TestMayPost(config)
          THEN /\ subs' = [subs EXCEPT ![s] = Registered([opened EXCEPT !.chunks = Append(@, Chunk("pushTest"))], published, lastSiteMetrics)]
               /\ listeners' = Append(listeners, s)
          ELSE /\ subs' = [subs EXCEPT ![s] = [opened EXCEPT !.pc = "testing"]]
               /\ UNCHANGED listeners
    /\ UNCHANGED <<published, beats, reads>>

\* testConnection() resolves (it catches every error of its POST): start()
\* resumes. On a stream that is closed both enqueue calls of the pushTest
\* event throw and start() rejects; otherwise the replay is enqueued, the
\* handlers and the heartbeat timer are registered, and the abort listener
\* is added.
TestReturns(s) ==
    /\ subs[s].pc = "testing"
    /\ IF subs[s].closed
       THEN /\ subs' = [subs EXCEPT ![s].pc = "failed"]
            /\ UNCHANGED listeners
       ELSE /\ subs' = [subs EXCEPT ![s] = Registered([subs[s] EXCEPT !.chunks = Append(@, Chunk("pushTest"))], published, lastSiteMetrics)]
            /\ listeners' = Append(listeners, s)
    /\ UNCHANGED <<published, beats, reads>>

\* The client closes the transport: request.signal aborts. With the abort
\* listener in place the cleanup runs; without it (start() still awaits the
\* test) nothing runs, and `cancelled` tells whether the runtime has
\* cancelled the response stream by then.
Disconnect(s, cancelled) ==
    /\ subs[s].pc \in {"testing", "live"}
    /\ ~subs[s].aborted
    /\ IF subs[s].abortHandler
       THEN /\ subs' = [subs EXCEPT ![s] = [@ EXCEPT !.aborted = TRUE, !.isConnected = FALSE, !.timer = FALSE,
                                                       !.closed = TRUE, !.pc = "done"]]
            /\ listeners' = SelectSeq(listeners, LAMBDA l : l # s)
       ELSE /\ subs' = [subs EXCEPT ![s] = [@ EXCEPT !.aborted = TRUE, !.closed = cancelled]]
            /\ UNCHANGED listeners
    /\ UNCHANGED <<published, beats, reads>>

\* The runtime cancels the response stream of a client that is gone (a
\* write to its socket fails).
RuntimeCancels(s) ==
    /\ subs[s].aborted
    /\ ~subs[s].closed
    /\ subs' = [subs EXCEPT ![s].closed = TRUE]
    /\ UNCHANGED <<listeners, published, beats, reads>>

\* The site emits an event: EventEmitter.emit calls the registered handlers
\* in order.
Publish ==
    /\ published < MaxEvents
    /\ published' = published + 1
    /\ subs' = Emit(listeners, subs, Event(published + 1)).subs
    /\ UNCHANGED <<listeners, beats, reads>>

\* The 30-second timer of connection s fires.
HeartbeatTick(s) ==
    /\ beats < MaxBeats
    /\ subs[s].timer
    /\ beats' = beats + 1
    /\ subs' = IF subs[s].isConnected /\ ~subs[s].closed
               THEN [subs EXCEPT ![s].chunks = Append(@, Chunk(":heartbeat"))]
               ELSE subs
    /\ UNCHANGED <<listeners, published, reads>>

\* The transport reads the chunks queued on the stream of connection s.
Read(s) ==
    /\ reads < MaxReads
    /\ reads' = reads + 1
    /\ ~subs[s].closed
    /\ subs[s].read < Len(subs[s].chunks)
    /\ subs' = [subs EXCEPT ![s].read = Len(subs[s].chunks)]
    /\ UNCHANGED <<listeners, published, beats>>

StreamNext ==
    \/ PushNext
    \/ \E s \in Subscribers : Connect(s) /\ pushResult' = Undefined /\ UNCHANGED <<clockVars, siteVars, intVars, pushState>>
    \/ \E s \in Subscribers : TestReturns(s) /\ pushResult' = Undefined /\ UNCHANGED <<clockVars, siteVars, intVars, pushState>>
    \/ \E s \in Subscribers : \E cancelled \in BOOLEAN : Disconnect(s, cancelled) /\ pushResult' = Undefined /\ UNCHANGED <<clockVars, siteVars, intVars, pushState>>
    \/ \E s \in Subscribers : RuntimeCancels(s) /\ pushResult' = Undefined /\ UNCHANGED <<clockVars, siteVars, intVars, pushState>>
    \/ Publish /\ pushResult' = Undefined /\ UNCHANGED <<clockVars, siteVars, intVars, pushState>>
    \/ \E s \in Subscribers : HeartbeatTick(s) /\ pushResult' = Undefined /\ UNCHANGED <<clockVars, siteVars, intVars, pushState>>
    \/ \E s \in Subscribers : Read(s) /\ pushResult' = Undefined /\ UNCHANGED <<clockVars, siteVars, intVars, pushState>>

\* The process started in one of the subscribers' environments.
StreamSpecInit == SiteInit /\ IntInit /\ SseInit /\ ClockInit(0) /\ \E e \in SubscriberEnvironments : PushInit(e)

\* The push client and the subscribers of GET /api/sse.
StreamSpec == StreamSpecInit /\ [][StreamNext]_vars

\* ------------------------------------------ ten minutes of polling

\* The site polls for ten minutes and more while its scan awaits discovery.
HistoryNext == PollTickWithin(MaxHistoryPolls) /\ UNCHANGED <<intVars, streamVars, clockVars>>

HistorySpec == Init /\ [][HistoryNext]_vars

\* ------------------------------------------------- the minutely timer

\* setInterval(() => this.generateAndEmitFroniusMinutely(), 60000), armed
\* by startPolling(): the callback runs 60000 ms after the timer was armed
\* or last ran, or `late` ms later (a timer never runs early).
MinutelyTimerFires(late) ==
    /\ Len(minutelyRuns) < MaxRuns
    /\ minutelyRuns' = Append(minutelyRuns,
                              (IF minutelyRuns = <<>> THEN startedAt ELSE minutelyRuns[Len(minutelyRuns)]) + MinuteMs + late)
    /\ MinutelyTick
    /\ UNCHANGED startedAt

TimerNext ==
    \E late \in 0..MaxLateMs : MinutelyTimerFires(late) /\ UNCHANGED <<intVars, streamVars>>

\* The site started at any offset past the minute.
TimerInit == SiteInit /\ IntInit /\ StreamInit /\ \E t \in StartOffsets : ClockInit(t)

\* The minutely timer on the wall clock.
TimerSpec == TimerInit /\ [][TimerNext]_vars

\* ------------------------------------------------------------ claims

\* C1: at most one polling round is in progress at any time (a tick that
\* fires while the previous poll has not completed starts no new poll).
C1_AtMostOnePollInProgress == Cardinality(polls) <= 1

\* C2: no polling round and no minutely report observes an inverter set
\* other than the complete pre-scan set or the complete post-scan set.
C2_AtomicReplacement ==
    IsDefined(observed) => Val(observed).serials \in {Val(observed).preScan, Val(observed).postScan}

\* C3: a serial number present before a rescan and rediscovered by it has the
\* same accumulated energies right after the rescan as right before it.
C3_EnergyKeptAcrossRescan ==
    scanReport.kind = "completed" =>
        \A s \in scanReport.preSerials \cap scanReport.postSerials :
            scanReport.postEnergy[s] = scanReport.preEnergy[s]

\* C4: when a rescan completes with a discovery result (an empty one
\* included), the serials held by the site are exactly the result's serials.
C4_SerialsEqualDiscovered ==
    (scanReport.kind = "completed" /\ scanReport.outcome # "failure") =>
        scanReport.postSerials = scanReport.discovered

\* C5: at most one discovery scan runs at any time: a scan request made
\* while a scan is in progress starts no second discovery.
C5_AtMostOneScan ==
    /\ Cardinality(DOMAIN scans) <= 1
    /\ scanReport.kind = "refused" => (emitted = <<>> /\ isScanning)

\* C5 witness: a scan request was refused while a scan was running.
C5_Witness == scanReport.kind = "refused" /\ Cardinality(DOMAIN scans) = 1

\* C6: every scan that starts eventually finishes: the scanning flag is
\* cleared and scanStatus IDLE followed by siteUpdate is published, whether
\* discovery succeeded, found nothing or failed.
C6_ScanEventuallyFinishes ==
    \A id \in 1..(MaxScans + 1) :
        (id \in DOMAIN scans) ~>
            (/\ scanReport.kind = "completed"
             /\ scanReport.id = id
             /\ ~isScanning
             /\ emitted = <<ScanStatusEvent("IDLE"), SiteUpdateEvent(inverters)>>)

\* C6 witness: a scan whose discovery failed has finished with the flag
\* cleared and the two events published.
C6_Witness ==
    /\ scanReport.kind = "completed"
    /\ scanReport.outcome = "failure"
    /\ ~isScanning
    /\ emitted = <<ScanStatusEvent("IDLE"), SiteUpdateEvent(inverters)>>

\* C7: updatePower(p, t) with a present p adds energy only when a previous
\* sample exists, t > tPrev and t - tPrev <= 10 s, and then adds exactly the
\* trapezoid (p + pPrev)/2 * (t - tPrev); otherwise the accumulator is
\* unchanged; in both cases (p, t) becomes the previous sample.
C7_GuardedTrapezoid ==
    (lastCall.target = "solar" /\ IsDefined(lastCall.powerW)) =>
        LET b == lastCall.before
            dt == lastCall.timestamp - Val(b.lastUpdateTime)
            adds == IsDefined(b.lastPower) /\ IsDefined(b.lastUpdateTime) /\ dt > 0 /\ dt <= 10 * 1000
        IN /\ integ.totalIntegrated =
                IF adds THEN b.totalIntegrated + (Val(lastCall.powerW) + Val(b.lastPower)) * dt
                ELSE b.totalIntegrated
           /\ integ.lastPower = lastCall.powerW
           /\ integ.lastUpdateTime = Some(lastCall.timestamp)

\* C8 (as claimed): the first valid sample that follows one or more absent
\* samples is treated as a first sample and adds nothing to the accumulator.
C8_ValidAfterAbsentAddsNothing ==
    (lastCall.target = "solar" /\ IsDefined(lastCall.powerW) /\ lastCall.afterAbsent) =>
        integ.totalIntegrated = lastCall.before.totalIntegrated

\* C8 (amended): a sample with absent power changes neither the accumulator
\* nor the last-sample state; the first valid sample after absent samples
\* adds nothing when no valid sample preceded them, and otherwise adds the
\* trapezoid anchored at the last valid sample before them.
C8_AbsentIgnored ==
    /\ (lastCall.target = "solar" /\ ~IsDefined(lastCall.powerW)) => integ = lastCall.before
    /\ (lastCall.target = "solar" /\ IsDefined(lastCall.powerW) /\ lastCall.afterAbsent) =>
        LET b == lastCall.before
        IN integ.totalIntegrated =
             IF IsDefined(b.lastPower)
             THEN b.totalIntegrated + (Val(lastCall.powerW) + Val(b.lastPower)) * (lastCall.timestamp - Val(b.lastUpdateTime))
             ELSE b.totalIntegrated

\* C8 witness: a valid sample follows an absent one, a valid sample preceded
\* both, and the accumulator grew.
C8_Witness ==
    /\ lastCall.target = "solar"
    /\ IsDefined(lastCall.powerW)
    /\ lastCall.afterAbsent
    /\ IsDefined(lastCall.before.lastPower)
    /\ integ.totalIntegrated > lastCall.before.totalIntegrated

\* C9: no updatePower call lowers the value of a solar integrator or the
\* positiveWh or negativeWh of a bidirectional integrator.
C9_Monotonic ==
    /\ lastCall.target = "solar" => integ.totalIntegrated >= lastCall.before.totalIntegrated
    /\ lastCall.target = "bidir" =>
        /\ bidir.positiveIntegrator.totalIntegrated >= lastCall.beforeBi.positiveIntegrator.totalIntegrated
        /\ bidir.negativeIntegrator.totalIntegrated >= lastCall.beforeBi.negativeIntegrator.totalIntegrated

\* C10: the N of successively emitted froniusMinutely records are exactly
\* 1, 2, 3, ...; calls that return null consume no number.
C10_SequenceNumbersContiguous ==
    /\ Len(froniusMinutelyHistory) = sequenceNumber
    /\ \A i \in 1..Len(froniusMinutelyHistory) : SequenceN(froniusMinutelyHistory[i]) = i
    /\ \A i \in 1..Len(emitted) :
          emitted[i].type = "froniusMinutely" => SequenceN(emitted[i].sequence) = Len(froniusMinutelyHistory)

\* C10 witness: the second report has been emitted, after calls that
\* returned null.
C10_Witness ==
    /\ emitted # <<>>
    /\ emitted[1].type = "froniusMinutely"
    /\ SequenceN(emitted[1].sequence) = 2
    /\ Len(froniusMinutelyHistory) = 2

\* C11: every emitted froniusMinutely.sequence has the form XXXX/N, XXXX a
\* four-hex-digit session ID that is the same for all records of the process.
C11_FourHexSessionPrefix ==
    \A i \in 1..Len(froniusMinutelyHistory) :
        LET prefix == SequencePrefix(froniusMinutelyHistory[i])
        IN /\ Len(prefix) = 4
           /\ \A k \in 1..Len(prefix) :
                 prefix[k] \in {DecimalDigits[d] : d \in 1..10} \cup {"A", "B", "C", "D", "E", "F", "a", "b", "c", "d", "e", "f"}
           /\ prefix = SequencePrefix(froniusMinutelyHistory[1])

\* C12: for every quantity, the sum of the deltas reported so far equals the
\* ledger's current snapshot value minus the value stored at bootstrapping.
C12_NoDrift ==
    IsDefined(ledgerAudit.bootstrap) =>
        \A k \in DOMAIN IntervalField :
            ledgerAudit.reported[k] * WhScale = Val(lastEnergySnapshot).total[k] - Val(ledgerAudit.bootstrap)[k]

\* C12 witness: two reports have been made, the ledger started at a value
\* that is no whole number of Wh, and the reported solar deltas are not 0.
C12_Witness ==
    /\ IsDefined(ledgerAudit.bootstrap)
    /\ sequenceNumber = 2
    /\ Val(ledgerAudit.bootstrap).solarWh % WhScale # 0
    /\ ledgerAudit.reported.solarWh > 0

\* C13: in every minutely report the master and slave solar parts sum to the
\* solar delta when master plus slave solar power is > 0 and the solar delta
\* is > 0, and both parts are 0 otherwise.
C13_SolarSplit ==
    \A i \in 1..Len(emitted) :
        emitted[i].type = "froniusMinutely" =>
            LET r == emitted[i]
            IN IF r.solarLocalW + r.solarRemoteW > 0 /\ r.solarIntervalWh > 0
               THEN r.solarLocalIntervalWh + r.solarRemoteIntervalWh = r.solarIntervalWh
               ELSE r.solarLocalIntervalWh = 0 /\ r.solarRemoteIntervalWh = 0

\* C13 witness: a report that splits a solar delta of 1 Wh between a master
\* and a slave of equal power.
C13_Witness ==
    /\ emitted # <<>>
    /\ emitted[1].type = "froniusMinutely"
    /\ emitted[1].solarIntervalWh = 1
    /\ emitted[1].solarLocalW = emitted[1].solarRemoteW
    /\ emitted[1].solarLocalW > 0

\* C14: in every siteMetrics snapshot with solar, battery and grid energies
\* all present, the reported load energy is max(0, solarWh + gridInWh +
\* batteryOutWh - gridOutWh - batteryInWh) of the energies reported in it.
C14_LoadEnergyBalance ==
    LET m == Val(lastSiteMetrics)
    IN (IsDefined(lastSiteMetrics) /\ IsDefined(m.solarWh) /\ IsDefined(m.batteryInWh) /\ IsDefined(m.gridInWh)) =>
          Val(m.loadWh) = Max(0, Val(m.solarWh) + Val(m.gridInWh) + Val(m.batteryOutWh)
                                 - Val(m.gridOutWh) - Val(m.batteryInWh))

\* C15: the inverterHeartbeat events of a polling tick are all delivered
\* before that tick's siteMetrics event, and no heartbeat or siteMetrics of
\* a different tick is delivered in between: no step delivers a heartbeat or
\* a siteMetrics event while another round has delivered heartbeats and
\* still owes its siteMetrics.
C15_HeartbeatsGroupedBeforeMetrics ==
    [][(\E i \in 1..Len(emitted') : emitted'[i].type \in {"inverterHeartbeat", "siteMetrics"})
          => {q \in polls \cap polls' : q.settled # {}} = {}]_vars

\* C16: siteMetrics events are delivered in non-decreasing timestamp order
\* (siteMetricsHistory holds the snapshots in the order they were emitted).
C16_MetricsInTimestampOrder ==
    /\ \A i \in 1..(Len(siteMetricsHistory) - 1) : siteMetricsHistory[i] <= siteMetricsHistory[i + 1]
    /\ \A i \in 1..Len(emitted) :
          emitted[i].type = "siteMetrics" => emitted[i].timestamp = siteMetricsHistory[Len(siteMetricsHistory)]

\* C16 witness: two rounds were in flight together and the second snapshot
\* was emitted at the same instant as the first.
C16_Witness ==
    /\ Len(siteMetricsHistory) >= 3
    /\ siteMetricsHistory[Len(siteMetricsHistory)] = siteMetricsHistory[Len(siteMetricsHistory) - 1]
    /\ emitted # <<>>
    /\ emitted[Len(emitted)].type = "siteMetrics"

\* C17: whenever a fetchPowerFlow() call fails in transport (the request
\* times out, is refused, finds no route, or gets an HTTP error), the call
\* returns no sample and leaves the inverter with a fault code set. (No fault
\* code of any error class is set, so which class is not asked.)
C17_TransportFailureSetsFault ==
    \A i \in 1..Len(fetched) :
        fetched[i].response.kind = "error"
            => /\ ~fetched[i].returnedData
               /\ IsDefined(fetched[i].after.faultCode)

\* C18: after a fetchPowerFlow() call that succeeded, the inverter's fault
\* code is the DeviceStatus.StatusCode of the response if that is present and
\* is not 7, and is cleared otherwise.
C18_FaultIffStatusNotRunning ==
    \A i \in 1..Len(fetched) :
        fetched[i].returnedData
            => fetched[i].after.faultCode =
                   (IF IsDefined(fetched[i].response.StatusCode) /\ Val(fetched[i].response.StatusCode) # 7
                    THEN fetched[i].response.StatusCode
                    ELSE Undefined)

\* C19: when the poll of one inverter fails (transport or parsing failure:
\* its heartbeat says offline), the polling round goes on: while other
\* requests of the round are pending the round keeps waiting for exactly
\* them, and when the failed request was the round's last, the round builds
\* the site metrics from the inverters, stores them as the latest and in the
\* history, and publishes them.
C19_FailureDoesNotAbortRound ==
    [][(Len(emitted') >= 1 /\ emitted'[1].type = "inverterHeartbeat" /\ emitted'[1].status = "offline")
         => \E r \in polls : \E obj \in r.pending :
               /\ obj[1] = emitted'[1].serialNumber
               /\ IF r.pending = {obj}
                  THEN /\ polls' = polls \ {r}
                       /\ Len(emitted') = 2
                       /\ emitted'[2].type = "siteMetrics"
                       /\ lastSiteMetrics' = Some(BuildSiteMetrics(inverters', MetricsTime(r.start, now')))
                       /\ emitted'[2].timestamp = Val(lastSiteMetrics').timestamp
                       /\ Len(siteMetricsHistory') >= 1
                       /\ siteMetricsHistory'[Len(siteMetricsHistory')] = Val(lastSiteMetrics').timestamp
                  ELSE /\ polls' = (polls \ {r}) \cup {[r EXCEPT !.pending = r.pending \ {obj}, !.settled = r.settled \cup {obj}]}
                       /\ Len(emitted') = 1]_vars

\* After the initial scan found A and B, a round has finished with B's answer
\* although A's poll of that round had failed before: A never returned data.
C19_Witness ==
    /\ scansStarted = 1
    /\ polls = {}
    /\ Len(inverters) = 2
    /\ \E i \in 1..Len(inverters) : inverters[i].serialNumber = "A" /\ ~IsDefined(inverters[i].lastPowerData)
    /\ Len(emitted) = 2
    /\ emitted[1] = HeartbeatEvent("B", TRUE)
    /\ emitted[2].type = "siteMetrics"

\* C20: the site metrics of a polling round count the power of exactly the
\* inverters whose poll of that round returned data: an inverter whose poll
\* failed adds nothing to the site's solar, battery and grid power, in that
\* round and in every later round in which its poll fails again.
C20_OfflineInverterExcluded ==
    (fetched # <<>> /\ Len(fetched) = Len(inverters))
        => LET m == Val(lastSiteMetrics)
               reporting(field) == {i \in 1..Len(fetched) : fetched[i].returnedData /\ IsDefined(fetched[i].response[field])}
               power(field) == SeqSum([i \in 1..Len(fetched) |-> IF i \in reporting(field) THEN Val(fetched[i].response[field]) ELSE 0])
               masters == {i \in reporting("P_Grid") : inverters[i].isMaster}
           IN /\ m.solarW = (IF reporting("P_PV") = {} THEN Undefined ELSE Some(power("P_PV")))
              /\ m.batteryW = (IF reporting("P_Akku") = {} THEN Undefined ELSE Some(power("P_Akku")))
              /\ m.gridW = (IF masters = {} THEN Undefined
                            ELSE Some(SeqSum([i \in 1..Len(fetched) |-> IF i \in masters THEN Val(fetched[i].response.P_Grid) ELSE 0])))

\* C21: when no inverter of the site answered its poll in the latest polling
\* round (every inverter is offline), the minutely timer that fires next
\* emits no froniusMinutely report.
C21_NoReportWhileAllOffline ==
    [][(/\ fetched # <<>>
        /\ Len(fetched) = Len(inverters)
        /\ \A i \in 1..Len(fetched) : ~fetched[i].returnedData)
          => \A i \in 1..Len(emitted') : emitted'[i].type # "froniusMinutely"]_vars

\* C22: at every moment at most one inverter of the site is flagged master.
C22_AtMostOneMaster ==
    Cardinality({i \in 1..Len(inverters) : inverters[i].isMaster}) <= 1

\* C23: when a rescan completes with a discovery result, every inverter the
\* site then holds is flagged master iff the power-flow response that the
\* scan's master check got for it carried a non-null P_Load; and a polling
\* step (a poll tick, the return of a poll request) changes no flag.
C23_MasterIffLoadReported ==
    [][/\ (scanReport'.kind = "completed" /\ scanReport'.outcome # "failure")
            => \A i \in 1..Len(inverters') :
                  inverters'[i].isMaster
                    <=> \E k \in 1..Len(scanReport'.devices) :
                           /\ scanReport'.devices[k].serialNumber = inverters'[i].serialNumber
                           /\ scanReport'.devices[k].powerFlow.kind = "site"
                           /\ IsDefined(scanReport'.devices[k].powerFlow.P_Load)
       /\ (now' # now \/ \E k \in 1..Len(emitted') : emitted'[k].type = "inverterHeartbeat")
            => [i \in 1..Len(inverters') |-> inverters'[i].isMaster] = [i \in 1..Len(inverters) |-> inverters[i].isMaster]]_vars

\* C24: a push that receives HTTP 401 or 404 leaves the push client
\* disabled, and a disabled client stays disabled and sends no POST, whatever
\* minutely records are handed to it afterwards.
C24_DisabledForGood ==
    [][/\ (IsDefined(pushResult') /\ Val(pushResult').outcome.kind = "httpError" /\ Val(pushResult').outcome.status \in {401, 404})
            => ~config'.enabled
       /\ ~config.enabled => (~config'.enabled /\ postLog' = postLog /\ posting' = {})]_vars

\* A second minutely record was handed to a client that had POSTed the first
\* one and been disabled by its 401 or 404: only the first was POSTed.
C24_Witness ==
    /\ minutes = 2
    /\ postLog = <<1>>
    /\ ~config.enabled
    /\ posting = {}

\* C25: a push that ends in HTTP 400, 409, a 5xx status or without any
\* response leaves the push client as it was: the configuration (enabled
\* included) and lastPushTimestamp are unchanged.
C25_FailedPushChangesNothing ==
    IsDefined(pushResult)
        => LET r == Val(pushResult)
           IN (\/ r.outcome.kind \in {"noResponse", "setup"}
               \/ (r.outcome.kind = "httpError" /\ (r.outcome.status \in {400, 409} \/ r.outcome.status >= 500)))
                 => /\ config = r.config
                    /\ config.enabled
                    /\ lastPushTimestamp = r.lastPushTimestamp

\* The second record's push ended in 409 after the first had succeeded:
\* lastPushTimestamp is still the first record's.
C25_Witness ==
    /\ IsDefined(pushResult)
    /\ Val(pushResult).outcome = HttpError(409)
    /\ Val(pushResult).data.sequence = 2
    /\ lastPushTimestamp = Some(MinuteMs)

\* C26: every minutely record is POSTed at most once: no sequence number
\* occurs twice among the POSTs made, and once a push has ended no POST is
\* awaited.
C26_AtMostOnePostPerRecord ==
    /\ \A i, j \in 1..Len(postLog) : i # j => postLog[i] # postLog[j]
    /\ IsDefined(pushResult) => posting = {}

\* The first record's push got no response, and the second record was
\* POSTed next: the first was not sent again.
C26_Witness ==
    /\ postLog = <<1, 2>>
    /\ lastPushTimestamp = Undefined
    /\ posting = {MinutelyRecord(2)}

\* Number of pushTest events enqueued on a connection's stream.
PushTestCount(sub) == Len(SelectSeq(sub.chunks, LAMBDA c : c.type = "pushTest"))

\* C27: a connection opened after a 401 response has disabled the push
\* client is sent no pushTest event.
C27_NoPushTestAfterDisable ==
    \A s \in Subscribers : subs[s].openedAfter = Some(401) => PushTestCount(subs[s]) = 0

\* C28: a connection whose client has disconnected, at whatever point of
\* start(), has no handler registered on the site and no heartbeat timer
\* running.
C28_DisconnectUnregisters ==
    \A s \in Subscribers : subs[s].aborted => ~subs[s].timer /\ \A i \in 1..Len(listeners) : listeners[i] # s

\* The events enqueued on a connection's stream, in order.
EventsOf(sub) == SelectSeq(sub.chunks, LAMBDA c : c.type = "event")

\* C29: a connection that is subscribed and whose client has not disconnected
\* has been sent every event the site emitted since its handlers were
\* registered, each once and in the order of emission, whatever the other
\* connections did.
C29_EveryEventInOrder ==
    \A s \in Subscribers :
        subs[s].pc = "live" /\ ~subs[s].aborted
            => EventsOf(subs[s]) = [i \in 1..(published - subs[s].subscribedAt) |-> Event(subs[s].subscribedAt + i)]

\* C30: the delivery queue of a connection never holds more chunks than its
\* capacity (when it is full, the oldest queued event is dropped for the one
\* published).
C30_QueueBounded ==
    \A s \in Subscribers : Len(Queued(subs[s])) <= QueueCapacity

\* C31: every run of the minutely report is 5 seconds past a minute
\* boundary: the first one at the first boundary after the start plus 5 s,
\* each later one a minute after the one before.
C31_FiveSecondsPastTheMinute ==
    \A i \in 1..Len(minutelyRuns) :
        minutelyRuns[i] = (startedAt \div MinuteMs + i) * MinuteMs + MinutelyOffsetMs

\* C32: a scan request that finds a scan running publishes a scanStatus
\* event with state SCANNING.
C32_RefusedScanPublishesScanning ==
    scanReport.kind = "refused" => \E i \in 1..Len(emitted) : emitted[i] = ScanStatusEvent("SCANNING")

\* C33: a rescan that fails end to end (discovery throws or finds nothing)
\* leaves the inverter set and every inverter's integrators as they were, and
\* polling goes on: every tick of the polling timer requests the power flow
\* of every inverter held.
C33_FailedRescanKeepsInverters ==
    [][/\ (scanReport'.kind = "completed" /\ scanReport'.outcome \in {"empty", "failure"}) => inverters' = inverters
       /\ (now' # now /\ inverters # <<>>)
              => \E r \in polls' \ polls :
                    r.pending = {<<inverters[i].serialNumber, inverters[i].id>> : i \in 1..Len(inverters)}]_vars

\* A rescan has failed on a site that held inverters with energy accumulated.
C33_Witness ==
    /\ scanReport.kind = "completed"
    /\ scanReport.outcome \in {"empty", "failure"}
    /\ scanReport.id > 1
    /\ \E i \in 1..Len(inverters) : GetEnergyData(inverters[i]).solarWh > 0

\* C34: POST /api/do with action scan is answered {success: true, message:
\* "Scan initiated"} while the scan it started, or the scan that was already
\* running, has not finished.
C34_ScanRespondsAtOnce ==
    (scanReport.kind \in {"started", "refused"} /\ scanReport.id > 1)
        => /\ scanReport.response = Some([success |-> TRUE, message |-> "Scan initiated"])
           /\ isScanning
           /\ scans # <<>>

\* A request was answered while an earlier scan was running.
C34_Witness == scanReport.kind = "refused" /\ IsDefined(scanReport.response) /\ isScanning

\* C35: the site's rolling history never holds more than 300 site-metric
\* snapshots.
C35_HistoryAtMost300 == Len(siteMetricsHistory) <= SiteMetricsHistoryLimit

\* C36: every interval energy field of every emitted froniusMinutely record
\* (solar, load, battery in and out, grid in and out) is a non-negative
\* whole number of Wh.
C36_IntervalEnergiesNonNegative ==
    \A i \in 1..Len(emitted) :
        emitted[i].type = "froniusMinutely"
            => \A k \in DOMAIN IntervalField : emitted[i][IntervalField[k]] \in Nat

\* C37: every inverter held has a solar integrator, a battery integrator
\* iff it has a battery record, and a grid integrator iff it is flagged
\* master, also when a rescan has changed its role or its battery record.
C37_IntegratorsMatchRole ==
    \A i \in 1..Len(inverters) :
        /\ "solarIntegrator" \in DOMAIN inverters[i]
        /\ IsDefined(inverters[i].batteryIntegrator) <=> inverters[i].battery
        /\ IsDefined(inverters[i].gridIntegrator) <=> inverters[i].isMaster

\* A rescan has completed after which a unit that had imported grid energy
\* as master is no longer master.
C37_Witness ==
    /\ scanReport.kind = "completed"
    /\ scanReport.id > 1
    /\ \E i \in 1..Len(inverters) :
          /\ inverters[i].serialNumber \in scanReport.preSerials
          /\ scanReport.preEnergy[inverters[i].serialNumber].gridInWh > 0
          /\ ~inverters[i].isMaster

\* C38: once a scan has published scanStatus IDLE, scanStatus SCANNING is
\* not published until another scan starts: a step publishes SCANNING only
\* when it starts a scan or when a scan was running before it.
C38_NoScanningAfterIdle ==
    [][(\E i \in 1..Len(emitted') : emitted'[i] = ScanStatusEvent("SCANNING"))
           => (scanReport'.kind = "started" \/ isScanning)]_vars

\* A scan has ended: its finally block has published IDLE and no scan runs.
C38_Witness ==
    /\ ~isScanning
    /\ scans = <<>>
    /\ \E i \in 1..Len(emitted) : emitted[i] = ScanStatusEvent("IDLE")

\* The inverterHeartbeat events the latest step published.
Heartbeats == SelectSeq(emitted, LAMBDA e : e.type = "inverterHeartbeat")

\* C39: a polling round publishes exactly one inverterHeartbeat event for
\* each inverter it polled, with status online iff that inverter's
\* fetchPowerFlow() returned a sample in the round and offline otherwise.
C39_OneHeartbeatPerInverter ==
    fetched # <<>> =>
        /\ Len(Heartbeats) = Len(fetched)
        /\ \A i \in 1..Len(fetched) :
              /\ Cardinality({j \in 1..Len(Heartbeats) : Heartbeats[j].serialNumber = fetched[i].serialNumber}) = 1
              /\ \E j \in 1..Len(Heartbeats) :
                    /\ Heartbeats[j].serialNumber = fetched[i].serialNumber
                    /\ Heartbeats[j].status = IF fetched[i].returnedData THEN "online" ELSE "offline"

\* A round in which one inverter returned a sample and the other did not.
C39_Witness ==
    /\ Len(fetched) = 2
    /\ fetched[1].returnedData
    /\ ~fetched[2].returnedData
    /\ Len(Heartbeats) = 2

\* C40: after every generateFroniusMinutely() call that returns a report,
\* each ledger snapshot value differs from the corresponding true cumulative
\* energy by at most 0.5 Wh, however many reports were generated before.
C40_LedgerWithinHalfWh ==
    (\E i \in 1..Len(emitted) : emitted[i].type = "froniusMinutely") =>
        \A k \in DOMAIN IntervalField :
            2 * Abs(Val(lastEnergySnapshot).total[k] - TotalCurrentWh(GetEnergyTotals(inverters))[k]) <= WhScale

\* A second report has been generated and the ledger's solar value is not the
\* true cumulative solar energy: a rounding residue is being carried.
C40_Witness ==
    /\ \E i \in 1..Len(emitted) : emitted[i].type = "froniusMinutely"
    /\ sequenceNumber = 2
    /\ Val(lastEnergySnapshot).total.solarWh # TotalCurrentWh(GetEnergyTotals(inverters)).solarWh

=============================================================================
